---- MODULE Spec2Model ----
(***************************************************************************)
(* Model of the go-user-api transaction abstraction and cache-aside layer. *)
(*                                                                         *)
(*  - GenericManager.ExecuteTx driving the relational and the document-    *)
(*    store executor handles and their scoped write repositories;          *)
(*  - the entity repositories' write paths and their cache invalidation;   *)
(*  - the cache-aside read protocol run concurrently with writes.          *)
(*                                                                         *)
(* Errors are modelled by their message: a sequence of message fragments,  *)
(* the empty sequence being the nil error.  fmt.Errorf concatenates.       *)
(***************************************************************************)
EXTENDS Integers, Sequences, FiniteSets, TLC

\* ---------------------------------------------------------------- bounds
NumUsers == 1       \* user ids in the store
NumRoles == 2       \* role ids in the store
MaxWrites == 2      \* writes one callback issues
MaxRoleList == 1    \* length of a role-id list passed to AssignRolesToUser
MaxCalls == 1       \* document-store sessions after which no further call is started
NumProcs == 3       \* concurrent requests against the cache-aside layer
NumPerms == 1       \* permission ids in the store
MaxAssocList == 2   \* length of the id list of an association replacement
MaxContacts == 2    \* commands the cache server receives from one client

UserIds == 1..NumUsers
RoleIds == 1..NumRoles
Vals == {"a", "b"}
Absent == "absent"

\* ---------------------------------------------------------------- errors
NilErr == <<>>
NoRet == <<"(pending)">>

Wrap(prefix, err) == <<prefix>> \o err

\* err's message occurs inside msg
Contains(msg, err) ==
  \E i \in 1..(Len(msg) - Len(err) + 1) : SubSeq(msg, i, i + Len(err) - 1) = err

DriverErr == <<"driver: bad connection">>
ErrNoTransactStarted == <<"no transaction started">>
ErrAbortAfterCommit == <<"cannot call abortTransaction after calling commitTransaction">>
ErrUserNotFound == <<"user not found">>
ErrDuplicateKey == <<"duplicate key">>
ErrForeignKey == <<"violates foreign key constraint">>
ErrInvalidRoleID == <<"invalid role ID: ", "invalid UUID length">>

\* ---------------------------------------------------------------- state
VARIABLES
  dbType,      \* cfg.DBType: the backend selected at startup
  store,       \* committed backend state: users and user_roles
  tx,          \* the executor handle: transaction state and its uncommitted view
  sessions,    \* number of document-store sessions started and not yet ended
  pc,          \* position of the ExecuteTx invocation
  fnRet,       \* what the callback returned (NoRet while it has not returned)
  ret,         \* what ExecuteTx returned (NoRet while it has not returned)
  calls,       \* how often callback / Commit / Rollback were invoked in this call
  wr,          \* the writes the callback issued: how many, and whether one failed
  outcome,     \* the errors Rollback and Commit returned in this call
  pre,         \* the committed state when ExecuteTx was entered
  ctxDone,     \* the caller's context was cancelled during this call
  cached,      \* entity repositories: the keys present in the cache
  write,       \* entity repositories: the write operation in progress
  db,          \* cache-aside protocol: version of the user row in the backend
  cache,       \* cache-aside protocol: version held under the key user:<id>
  proc,        \* cache-aside protocol: the concurrent requests
  gstore,      \* permission graph: the committed entities and associations
  gcache,      \* permission graph: the user payload cached under user:<id>
  repl,        \* permission graph: the role replacement in progress
  last,        \* permission graph: the operation that returned last
  rc,          \* cache client: the RedisClient and the server behind it
  auth,        \* login: the user row, its cached payload and the last result
  svc,         \* services: the stored entities and the requests in progress
  mgr          \* shared transaction manager: the concurrent ExecuteTx invocations

txVars == <<dbType, store, tx, sessions, pc, fnRet, ret, calls, wr, outcome, pre, ctxDone>>

repoVars == <<cached, write>>

cacheVars == <<db, cache, proc>>

graphVars == <<gstore, gcache, repl, last>>

clientVars == <<rc>>

authVars == <<auth>>

svcVars == <<svc>>

mgrVars == <<mgr>>

vars == <<txVars, repoVars, cacheVars, graphVars, clientVars, authVars, svcVars, mgrVars>>

\* no entity-repository write is running and the cache is empty
NoPath == [repo |-> "none", op |-> "none", backend |-> "none", entity |-> "none",
           prog |-> <<>>, patterns |-> <<>>, rows |-> "n/a"]
NoWrite == [path |-> NoPath, ip |-> 1, err |-> <<>>, durable |-> FALSE,
            inval |-> FALSE, open |-> FALSE, logged |-> FALSE, rbErr |-> <<>>]
RepoIdle == cached = {} /\ write = NoWrite

\* no request is running; the user row is at its first version and not cached
NoVersion == 0
Procs == 1..NumProcs
IdleProc == [job |-> "none", pc |-> "idle", phase |-> 0, seen |-> NoVersion,
             resp |-> NoVersion, wrote |-> NoVersion, floor |-> NoVersion,
             err |-> <<>>]
CacheIdle == db = 1 /\ cache = NoVersion /\ proc = [p \in Procs |-> IdleProc]

EmptyStore == [users |-> [u \in UserIds |-> Absent], user_roles |-> {}]

\* the permission graph after every user, role and permission has been created
\* and before any association exists; nothing is cached, no operation has run
PermIds == 1..NumPerms
NoId == 0
CreatedStore ==
  [users |-> [u \in UserIds |-> "a"], user_roles |-> {},
   roles |-> RoleIds, permissions |-> PermIds, role_permissions |-> {}]
NoPayload == [cached |-> FALSE, roles |-> {}]
NoRepl == [pc |-> "idle", kind |-> "none", user |-> NoId, ids |-> <<>>, old |-> {},
           buf |-> CreatedStore]
NoOp == [op |-> "none", id |-> NoId, ids |-> <<>>, err |-> NilErr, roles |-> {},
         hit |-> FALSE]
GraphIdle ==
  /\ gstore = CreatedStore
  /\ gcache = [u \in UserIds |-> NoPayload]
  /\ repl = NoRepl
  /\ last = NoOp

\* no cache client has been constructed; the cache server is up and empty
NoResult == [op |-> "none", found |-> FALSE, err |-> NilErr]
ClientIdle ==
  rc = [built |-> FALSE, enabled |-> FALSE, up |-> TRUE, keys |-> {},
        contacts |-> 0, res |-> NoResult,
        rep |-> [op |-> "none", found |-> FALSE, err |-> <<>>, backend |-> <<>>]]

NoTx == [state |-> "None", buf |-> EmptyStore]

\* database/sql Tx and the driver's client session: is a transaction running
TxOpen == tx.state \in {"Starting", "InProgress"}

\* what a statement issued through the handle reads
CurView == IF TxOpen THEN tx.buf ELSE store

\* ------------------------------------------------- scoped write repositories
\* Every scoped operation maps the view it runs against to the view it leaves
\* and the error it returns: [view |-> ..., err |-> ...].

Res(view, err) == [view |-> view, err |-> err]

RECURSIVE InsertUserRoles(_, _, _, _, _)
\* one INSERT INTO user_roles per id of the list, in order; stops at the first
\* statement that fails: the injected fault at position failAt, a missing parent
\* row when the backend enforces foreign keys, or a pair already present.
InsertUserRoles(view, userID, roleIDs, k, cfg) ==
  IF k > Len(roleIDs) THEN Res(view, NilErr)
  ELSE IF k = cfg.failAt THEN Res(view, DriverErr)
  ELSE IF cfg.fk /\ view.users[userID] = Absent THEN Res(view, ErrForeignKey)
  ELSE IF <<userID, roleIDs[k]>> \in view.user_roles THEN Res(view, ErrDuplicateKey)
  ELSE InsertUserRoles(
         [view EXCEPT !.user_roles = @ \cup {<<userID, roleIDs[k]>>}],
         userID, roleIDs, k + 1, cfg)

DeleteUserRoles(view, userID) ==
  [view EXCEPT !.user_roles = {p \in @ : p[1] # userID}]

WrapIfErr(prefix, r) ==
  IF r.err = NilErr THEN r ELSE Res(r.view, Wrap(prefix, r.err))

\* PostgresqlTxRepository.CreateUser: INSERT ... RETURNING id
PgCreateUser(view, id, val, fail) ==
  IF fail THEN Res(view, Wrap("failed to create user in transaction: ", DriverErr))
  ELSE Res([view EXCEPT !.users[id] = val], NilErr)

\* PostgresqlTxRepository.UpdateUser: UPDATE ... WHERE id = $7, rows affected unchecked
PgUpdateUser(view, id, val, fail) ==
  IF fail THEN Res(view, Wrap("failed to update user in transaction: ", DriverErr))
  ELSE IF view.users[id] = Absent THEN Res(view, NilErr)
  ELSE Res([view EXCEPT !.users[id] = val], NilErr)

\* PostgresqlTxRepository.AssignRolesToUser: DELETE, then one INSERT per role id
PgAssignRolesToUser(view, userID, roleIDs, failAt) ==
  IF failAt = 0
  THEN Res(view, Wrap("failed to remove existing roles in transaction: ", DriverErr))
  ELSE WrapIfErr("failed to assign role in transaction: ",
         InsertUserRoles(DeleteUserRoles(view, userID), userID, roleIDs, 1,
                         [failAt |-> failAt, fk |-> TRUE]))

\* mongodb TxRepository.CreateUser: InsertOne with an application-generated id
MongoCreateUser(view, id, val, fail) ==
  IF fail THEN Res(view, Wrap("failed to create user in MongoDB transaction: ", DriverErr))
  ELSE Res([view EXCEPT !.users[id] = val], NilErr)

\* mongodb TxRepository.UpdateUser: UpdateOne, MatchedCount = 0 is "user not found"
MongoUpdateUser(view, id, val, fail) ==
  IF fail THEN Res(view, Wrap("failed to update user in MongoDB transaction: ", DriverErr))
  ELSE IF view.users[id] = Absent THEN Res(view, ErrUserNotFound)
  ELSE Res([view EXCEPT !.users[id] = val], NilErr)

\* mongodb TxRepository.AssignRolesToUser: DeleteMany, then one ordered InsertMany
\* (skipped for an empty list); no foreign keys, a unique index on the pair.
MongoAssignRolesToUser(view, userID, roleIDs, failAt) ==
  IF failAt = 0
  THEN Res(view, Wrap("failed to remove existing roles in MongoDB transaction: ", DriverErr))
  ELSE IF Len(roleIDs) = 0 THEN Res(DeleteUserRoles(view, userID), NilErr)
  ELSE WrapIfErr("failed to assign roles in MongoDB transaction: ",
         InsertUserRoles(DeleteUserRoles(view, userID), userID, roleIDs, 1,
                         [failAt |-> failAt, fk |-> FALSE]))

\* ------------------------------------------------------ executor handles
ErrCommitAfterAbort == <<"cannot call commitTransaction after calling abortTransaction">>
ErrAbortTwice == <<"cannot call abortTransaction twice">>
ErrTxDone == <<"sql: transaction has already been committed or rolled back">>
ErrCanceled == <<"context canceled">>

\* [tx |-> handle afterwards, err |-> error, commit |-> the view made durable or "no"]
Done(t, err) == [tx |-> t, err |-> err]

\* sqlx: db.BeginTxx opens a transaction that sees the committed state
PgBeginTxx(committed, ok) ==
  IF ok THEN Done([state |-> "InProgress", buf |-> committed], NilErr)
  ELSE Done(NoTx, DriverErr)

\* sqlx.Tx.Commit: makes the transaction's writes durable, or fails and loses them
PgCommit(t, ok) ==
  IF t.state # "InProgress" THEN Done(t, ErrTxDone)
  ELSE IF ok THEN Done([t EXCEPT !.state = "Committed"], NilErr)
  ELSE Done([t EXCEPT !.state = "Aborted"], DriverErr)

\* sqlx.Tx.Rollback: the writes are discarded whether or not the call reports an error
PgRollback(t, ok) ==
  IF t.state # "InProgress" THEN Done(t, ErrTxDone)
  ELSE Done([t EXCEPT !.state = "Aborted"], IF ok THEN NilErr ELSE DriverErr)

\* driver session: StartTransaction
SessStartTransaction(t, committed) ==
  IF t.state \in {"Starting", "InProgress"}
  THEN Done(t, <<"transaction already in progress">>)
  ELSE Done([state |-> "Starting", buf |-> committed], NilErr)

\* driver session: CommitTransaction (MongoTx.Commit calls it on tx.ctx).
\* A transaction still in state Starting, or one already committed, commits
\* without a round trip to the server.
SessCommitTransaction(t, ok) ==
  CASE t.state = "None" -> Done(t, ErrNoTransactStarted)
    [] t.state = "Aborted" -> Done(t, ErrCommitAfterAbort)
    [] t.state \in {"Starting", "Committed"} -> Done([t EXCEPT !.state = "Committed"], NilErr)
    [] t.state = "InProgress" ->
         IF ok THEN Done([t EXCEPT !.state = "Committed"], NilErr)
         ELSE Done([t EXCEPT !.state = "Aborted"], DriverErr)

\* driver session: AbortTransaction (MongoTx.Rollback calls it on tx.ctx)
SessAbortTransaction(t, ok) ==
  CASE t.state = "None" -> Done(t, ErrNoTransactStarted)
    [] t.state = "Committed" -> Done(t, ErrAbortAfterCommit)
    [] t.state = "Aborted" -> Done(t, ErrAbortTwice)
    [] t.state \in {"Starting", "InProgress"} ->
         Done([t EXCEPT !.state = "Aborted"], IF ok THEN NilErr ELSE DriverErr)

\* did this Commit make the handle's view durable
Durable(before, after) == before.state = "InProgress" /\ after.state = "Committed"

\* session.WithTransaction(ctx, fn): starts a transaction, runs fn, and commits
\* when fn returns nil.  The callback passed by beginTx only returns its context.
WithTransactionReturningContext(t, committed, ok) ==
  IF ~ok THEN Done(t, DriverErr)
  ELSE SessCommitTransaction(SessStartTransaction(t, committed).tx, TRUE)

\* relational adapter's beginTx: a native transaction handle from the pool
PostgresBeginTx(committed, how) ==
  [h |-> PgBeginTxx(committed, how = "ok"), opened |-> 0]

\* mongodb.NewTransactionManager's beginTx closure
MongoBeginTx(committed, how) ==
  IF how = "noSession"
  THEN [h |-> Done(NoTx, Wrap("failed to start MongoDB session: ", DriverErr)), opened |-> 0]
  ELSE LET w == WithTransactionReturningContext(NoTx, committed, how = "ok")
       IN IF w.err # NilErr
          THEN [h |-> Done(NoTx, Wrap("failed to create transaction context: ", w.err)),
                opened |-> 0]   \* session.EndSession(ctx)
          ELSE [h |-> Done(w.tx, NilErr), opened |-> 1]

BeginTx(committed, how) ==
  IF dbType = "postgres" THEN PostgresBeginTx(committed, how) ELSE MongoBeginTx(committed, how)

\* Executor.Commit / Executor.Rollback of the handle the manager holds
HandleCommit(t, ok) ==
  IF dbType = "postgres" THEN PgCommit(t, ok) ELSE SessCommitTransaction(t, ok)

HandleRollback(t, ok) ==
  IF dbType = "postgres" THEN PgRollback(t, ok) ELSE SessAbortTransaction(t, ok)

\* ------------------------------------------ statements through the handle
\* mutant: the statement is sent to the connection pool instead of the transaction
PgPoolExec(r) ==
  /\ tx' = [tx EXCEPT !.buf = r.view]
  /\ store' = r.view

\* PostgresqlTxRepository: every statement runs on r.tx, never on the pool
PgTxExec(r) ==
  /\ tx' = [tx EXCEPT !.buf = r.view]
  /\ store' = store

\* mongodb TxRepository: every operation runs with r.ctx, the session context.
\* The driver attaches the operation to the session's transaction only while
\* one is running; otherwise it is an ordinary auto-committed write, and a
\* finished transaction's state is cleared by the next command.
MongoSessionExec(r) ==
  IF TxOpen
  THEN /\ tx' = [state |-> "InProgress", buf |-> r.view]
       /\ store' = store
  ELSE /\ tx' = [tx EXCEPT !.state = "None"]
       /\ store' = r.view

ScopedExec(r) == IF dbType = "postgres" THEN PgTxExec(r) ELSE MongoSessionExec(r)

\* the scoped repository createRepo(tx) builds, operation by operation
ScopedCreateUser(id, val, fail) ==
  IF dbType = "postgres" THEN PgCreateUser(CurView, id, val, fail)
  ELSE MongoCreateUser(CurView, id, val, fail)

ScopedUpdateUser(id, val, fail) ==
  IF dbType = "postgres" THEN PgUpdateUser(CurView, id, val, fail)
  ELSE MongoUpdateUser(CurView, id, val, fail)

ScopedAssignRolesToUser(userID, roleIDs, failAt) ==
  IF dbType = "postgres" THEN PgAssignRolesToUser(CurView, userID, roleIDs, failAt)
  ELSE MongoAssignRolesToUser(CurView, userID, roleIDs, failAt)

RoleLists == UNION {[1..n -> RoleIds] : n \in 0..MaxRoleList}

\* ------------------------------------------------ GenericManager.ExecuteTx
\* mutant: the callback's error is ignored and the transaction committed
ExecuteTxAlwaysCommit(err) == "commit"

\* which executor call follows the callback
ExecuteTxDecide(err) == IF err # NilErr THEN "rollback" ELSE "commit"

\* mutant: a rolled-back callback error is replaced by a generic message
ExecuteTxOnErrorGeneric(err, rbErr) ==
  IF rbErr # NilErr
  THEN <<"tx failed: ">> \o err \o <<", unable to rollback: ">> \o rbErr
  ELSE <<"transaction failed">>

\* mutant: the rollback failure is dropped
ExecuteTxOnErrorDropRollback(err, rbErr) == err

\* what ExecuteTx returns on the rollback path
ExecuteTxOnError(err, rbErr) ==
  IF rbErr # NilErr
  THEN <<"tx failed: ">> \o err \o <<", unable to rollback: ">> \o rbErr
  ELSE err

\* mutant: the commit error is swallowed
ExecuteTxOnSuccessSwallow(cmErr) == NilErr

\* what ExecuteTx returns on the commit path
ExecuteTxOnSuccess(cmErr) ==
  IF cmErr # NilErr THEN Wrap("failed to commit transaction: ", cmErr) ELSE NilErr

NoCalls == [callback |-> 0, commit |-> 0, rollback |-> 0]
NoWrites == [n |-> 0, ok |-> 0, failed |-> FALSE]
NoOutcome == [begin |-> NoRet, rollback |-> NoRet, commit |-> NoRet]

\* tx, err := m.beginTx(ctx); on success repo := m.createRepo(tx) and fn(repo) starts
ExecuteTxBegin ==
  /\ pc = "idle"
  /\ \E how \in {"ok", "noSession", "noTx"} :
       LET b == BeginTx(store, how) IN
         /\ pre' = store
         /\ sessions' = sessions + b.opened
         /\ outcome' = [outcome EXCEPT !.begin = b.h.err]
         /\ IF b.h.err # NilErr
            THEN /\ ret' = Wrap("failed to begin transaction: ", b.h.err)
                 /\ pc' = "returned"
                 /\ UNCHANGED <<tx, calls>>
            ELSE /\ tx' = b.h.tx
                 /\ calls' = [calls EXCEPT !.callback = @ + 1]
                 /\ pc' = "callback"
                 /\ ret' = ret
  /\ UNCHANGED <<dbType, ctxDone, store, fnRet, wr, repoVars, cacheVars, graphVars, clientVars, authVars, svcVars, mgrVars>>

\* the caller's context is cancelled while the callback runs: database/sql
\* rolls back a transaction begun with that context, the document-store
\* session is left as it is.  A backend call in flight fails and the callback
\* returns its wrapped error; a callback that has made its last backend call
\* returns nil.
CtxCancel ==
  /\ pc = "callback" /\ ~ctxDone
  /\ ctxDone' = TRUE
  /\ tx' = IF dbType = "postgres" THEN [tx EXCEPT !.state = "Aborted"] ELSE tx
  /\ \E e \in {NilErr, Wrap("failed to update user: ", ErrCanceled)} : fnRet' = e
  /\ pc' = "cbReturned"
  /\ UNCHANGED <<dbType, store, sessions, ret, calls, wr, outcome, pre,
                 repoVars, cacheVars, graphVars, clientVars, authVars, svcVars, mgrVars>>

\* the callback issues one write through the scoped repository; a failed write
\* makes it return the wrapped error (UserService.CreateUser / UpdateUser)
CallbackStep(r, prefix) ==
  /\ ScopedExec(r)
  /\ wr' = [n |-> wr.n + 1,
            ok |-> IF r.err = NilErr THEN wr.ok + 1 ELSE wr.ok,
            failed |-> r.err # NilErr]
  /\ IF r.err # NilErr
     THEN fnRet' = Wrap(prefix, r.err) /\ pc' = "cbReturned"
     ELSE UNCHANGED <<fnRet, pc>>
  /\ UNCHANGED <<dbType, ctxDone, sessions, ret, calls, outcome, pre, repoVars, cacheVars, graphVars, clientVars, authVars, svcVars, mgrVars>>

CallbackCreateUser ==
  /\ pc = "callback" /\ wr.n < MaxWrites
  /\ \E id \in UserIds, val \in Vals, fail \in BOOLEAN :
       /\ CurView.users[id] = Absent
       /\ CallbackStep(ScopedCreateUser(id, val, fail), "failed to create user: ")

CallbackUpdateUser ==
  /\ pc = "callback" /\ wr.n < MaxWrites
  /\ \E id \in UserIds, val \in Vals, fail \in BOOLEAN :
       CallbackStep(ScopedUpdateUser(id, val, fail), "failed to update user: ")

CallbackAssignRoles ==
  /\ pc = "callback" /\ wr.n < MaxWrites
  /\ \E userID \in UserIds, roleIDs \in RoleLists :
       \E failAt \in 0..(Len(roleIDs) + 1) :
         CallbackStep(ScopedAssignRolesToUser(userID, roleIDs, failAt),
                      "failed to assign roles: ")

\* the callback returns without a failed write: nil, or an error of its own
CallbackReturn ==
  /\ pc = "callback"
  /\ \E e \in {NilErr, ErrInvalidRoleID} : fnRet' = e
  /\ pc' = "cbReturned"
  /\ UNCHANGED <<dbType, ctxDone, store, tx, sessions, ret, calls, wr, outcome, pre, repoVars, cacheVars, graphVars, clientVars, authVars, svcVars, mgrVars>>

\* if err := fn(repo); err != nil { tx.Rollback() ... }
ExecuteTxRollback ==
  /\ pc = "cbReturned"
  /\ ExecuteTxDecide(fnRet) = "rollback"
  /\ \E ok \in BOOLEAN :
       LET rb == HandleRollback(tx, ok) IN
         /\ tx' = rb.tx
         /\ outcome' = [outcome EXCEPT !.rollback = rb.err]
         /\ ret' = ExecuteTxOnError(fnRet, rb.err)
  /\ calls' = [calls EXCEPT !.rollback = @ + 1]
  /\ pc' = "returned"
  /\ UNCHANGED <<dbType, ctxDone, store, sessions, fnRet, wr, pre, repoVars, cacheVars, graphVars, clientVars, authVars, svcVars, mgrVars>>

\* tx.Commit()
ExecuteTxCommit ==
  /\ pc = "cbReturned"
  /\ ExecuteTxDecide(fnRet) = "commit"
  /\ \E ok \in BOOLEAN :
       LET cm == HandleCommit(tx, ok) IN
         /\ tx' = cm.tx
         /\ store' = IF Durable(tx, cm.tx) THEN tx.buf ELSE store
         /\ outcome' = [outcome EXCEPT !.commit = cm.err]
         /\ ret' = ExecuteTxOnSuccess(cm.err)
  /\ calls' = [calls EXCEPT !.commit = @ + 1]
  /\ pc' = "returned"
  /\ UNCHANGED <<dbType, ctxDone, sessions, fnRet, wr, pre, repoVars, cacheVars, graphVars, clientVars, authVars, svcVars, mgrVars>>

\* the next request calls ExecuteTx on the same manager
NextCall ==
  /\ pc = "returned"
  /\ sessions < MaxCalls
  /\ pc' = "idle"
  /\ tx' = NoTx
  /\ fnRet' = NoRet /\ ret' = NoRet
  /\ calls' = NoCalls /\ wr' = NoWrites /\ outcome' = NoOutcome
  /\ ctxDone' = FALSE
  /\ UNCHANGED <<dbType, store, sessions, pre, repoVars, cacheVars, graphVars, clientVars, authVars, svcVars, mgrVars>>

TxIdle ==
  /\ dbType \in {"postgres", "mongodb"}
  /\ store = EmptyStore
  /\ tx = NoTx
  /\ sessions = 0
  /\ pc = "idle"
  /\ fnRet = NoRet /\ ret = NoRet
  /\ calls = NoCalls /\ wr = NoWrites /\ outcome = NoOutcome
  /\ pre = EmptyStore
  /\ ctxDone = FALSE

\* ---- login and the cached user payload
Passwords == {"pw1", "pw2"}

\* bcrypt.GenerateFromPassword: the hash names the password it was made from
HashPassword(plain) == <<"$2a$", plain>>

\* models.User; Roles is filled by GetUserRoles, not by the users table
UserRow(password, isActive, roles) ==
  [ID |-> "u1", Username |-> "alice", Password |-> password,
   IsActive |-> isActive, Roles |-> roles]

\* var user models.User
ZeroUser == [ID |-> "", Username |-> "", Password |-> <<>>, IsActive |-> FALSE,
             Roles |-> <<>>]

NoEntry == {}

NoLogin == [op |-> "none", found |-> FALSE, user |-> ZeroUser, err |-> <<>>,
            active |-> FALSE, correct |-> FALSE, src |-> "none"]

\* one registered, active user whose password is pw1; nothing cached
AuthIdle ==
  auth = [row |-> UserRow(HashPassword("pw1"), TRUE, <<>>), entry |-> NoEntry,
          stored |-> ZeroUser, last |-> NoLogin]

\* ---- the services' create and update requests
MaxRequests == 3     \* create requests the services receive in total

Callers == {"c1", "c2"}         \* the requests served at the same time

NoCall == [pc |-> "idle", op |-> "none", id |-> 0, a |-> "", b |-> "",
           found |-> FALSE, conflict |-> FALSE, txs |-> 0, wrote |-> FALSE,
           h |-> NoTx, fnErr |-> <<>>, err |-> <<>>, resp |-> FALSE]

NoUpdate == [op |-> "none", list |-> <<>>, before |-> {}, replaced |-> FALSE,
             err |-> <<>>]

\* empty users and permissions tables, the user and the role that the update
\* requests address hold no association, no request has been served (call
\* holds the latest request of each caller that made one)
SvcIdle ==
  svc = [rows |-> {}, pending |-> {}, call |-> <<>>,
         requests |-> 0, userRoles |-> {}, rolePerms |-> {}, last |-> NoUpdate]

\* ---- one GenericManager shared by concurrent callers
MaxMgrCalls == 3     \* ExecuteTx calls the manager receives in total

Invocations == {"g1", "g2"}     \* the goroutines calling ExecuteTx

\* the manager was built, no caller is inside ExecuteTx (inv is empty), no
\* handle exists yet
MgrIdle == mgr = [inv |-> <<>>, handles |-> <<>>, calls |-> 0]

Init ==
  /\ TxIdle /\ RepoIdle /\ CacheIdle /\ GraphIdle /\ ClientIdle
  /\ AuthIdle /\ SvcIdle /\ MgrIdle

Next ==
  \/ ExecuteTxBegin
  \/ CallbackCreateUser
  \/ CallbackUpdateUser
  \/ CallbackAssignRoles
  \/ CallbackReturn
  \/ CtxCancel
  \/ ExecuteTxRollback
  \/ ExecuteTxCommit
  \/ NextCall

Spec == Init /\ [][Next]_vars

\* ------------------------------------------------------------ properties
BeginOK == outcome.begin = NilErr
Failed(e) == e # NilErr /\ e # NoRet

\* C1: per ExecuteTx call, a failed beginTx means the callback, Commit and
\* Rollback are never invoked; after a successful beginTx exactly one of Commit
\* and Rollback is invoked, once, only after the callback has returned: Commit
\* when it returned nil, Rollback when it returned an error.
C1_ExactlyOneOfCommitRollback ==
  /\ calls.commit + calls.rollback > 0 => (pc = "returned" /\ fnRet # NoRet)
  /\ pc = "returned" =>
       IF ~BeginOK THEN calls = NoCalls
       ELSE /\ calls.callback = 1
            /\ calls.commit + calls.rollback = 1
            /\ (fnRet = NilErr => calls.commit = 1)
            /\ (fnRet # NilErr => calls.rollback = 1)

C1_Witness ==
  pc = "returned" /\ BeginOK /\ wr.n >= 1 /\ Failed(fnRet) /\ calls.rollback = 1

\* C2: relational backend: when a callback that issued two or more writes
\* returns the error of a failed write, the committed state after ExecuteTx
\* returns is the committed state before it: none of its writes is visible.
C2_RelationalAtomicity ==
  (dbType = "postgres" /\ pc = "returned" /\ wr.n >= 2 /\ wr.failed) => store = pre

C2_Witness ==
  /\ dbType = "postgres" /\ pc = "returned" /\ wr.n >= 2 /\ wr.failed
  /\ tx.buf # pre

\* C3: document-store backend (manager built by NewTransactionManager): when a
\* later write of the callback fails and the callback returns the error, none
\* of the earlier writes of that call is visible after ExecuteTx returns.
C3_DocumentStoreAtomicity ==
  (dbType = "mongodb" /\ pc = "returned" /\ wr.ok >= 1 /\ wr.failed) => store = pre

\* C4: on both backends, while the callback runs, the transaction behind the
\* executor handle it writes through is open: started, not committed, not aborted.
C4_HandleOpenDuringCallback ==
  pc = "callback" => TxOpen

\* C5: when the callback returns error E and Rollback succeeds, ExecuteTx
\* returns E itself, with Rollback invoked once and Commit never.
C5_CallbackErrorVerbatim ==
  (pc = "returned" /\ BeginOK /\ Failed(fnRet) /\ outcome.rollback = NilErr)
    => (ret = fnRet /\ calls.rollback = 1 /\ calls.commit = 0)

C5_Witness ==
  pc = "returned" /\ BeginOK /\ Failed(fnRet) /\ outcome.rollback = NilErr /\ ret = fnRet

\* C6: when the callback returns error E and Rollback fails with R, ExecuteTx
\* returns one error whose message contains E's message and R's message.
C6_RollbackFailureReported ==
  (pc = "returned" /\ Failed(outcome.rollback))
    => (Failed(fnRet) /\ Contains(ret, fnRet) /\ Contains(ret, outcome.rollback))

C6_Witness ==
  pc = "returned" /\ Failed(fnRet) /\ Failed(outcome.rollback) /\ Len(ret) > Len(fnRet)

\* C7: ExecuteTx returns no error exactly when beginTx succeeded, the callback
\* returned nil and Commit returned nil; when Commit fails, the returned error
\* wraps the commit error.
C7_NilIffAllSucceeded ==
  pc = "returned" =>
    /\ ret = NilErr <=> (BeginOK /\ fnRet = NilErr /\ outcome.commit = NilErr)
    /\ Failed(outcome.commit) =>
         (ret # outcome.commit /\ Contains(ret, outcome.commit))

C7_Witness ==
  pc = "returned" /\ fnRet = NilErr /\ Failed(outcome.commit) /\ ret # NilErr

\* ------------------------------------- entity repositories: the write paths

\* A cache key is its ':'-separated segments; a pattern "p:*" is the segments
\* of p.  These are the keys the repositories' read operations populate.
UserKeys == {<<"user", "id">>, <<"user", "username", "name">>,
             <<"users", "limit", "n", "offset", "m">>, <<"users", "count">>}
RoleKeys == {<<"role", "id">>, <<"role", "name", "name">>, <<"roles", "all">>}
PermissionKeys == {<<"permission", "id">>,
                   <<"permission", "resource", "res", "action", "act">>,
                   <<"permissions", "all">>,
                   <<"permissions", "resource", "res">>}
CacheKeys == UserKeys \cup RoleKeys \cup PermissionKeys

\* Redis KEYS with a glob "prefix:*"
Matches(pattern, key) ==
  Len(key) > Len(pattern) /\ SubSeq(key, 1, Len(pattern)) = pattern

\* RedisClient.DeleteByPattern: KEYS pattern, then DEL of what was found
DeleteByPattern(keys, pattern) == {k \in keys : ~Matches(pattern, k)}

RECURSIVE DeleteByPatterns(_, _, _, _)
\* the invalidate helpers: one DeleteByPattern per pattern, a failure is logged
DeleteByPatterns(keys, patterns, ok, i) ==
  IF i > Len(patterns) THEN keys
  ELSE DeleteByPatterns(IF ok[i] THEN DeleteByPattern(keys, patterns[i]) ELSE keys,
                        patterns, ok, i + 1)

\* the by-id and by-username entries only
invalidateUserEntries == << <<"user">> >>
invalidateUserCache == << <<"user">>, <<"users">> >>
invalidateRoleCache == << <<"role">>, <<"roles">> >>
invalidateUserPermissionCache == << <<"user", "permissions">> >>
invalidatePermissionCache ==
  << <<"permission">>, <<"permissions">>, <<"role">>, <<"user", "permissions">> >>

\* The statements of a write path in the order the code issues them.
\* one statement on the pool, then the invalidation
DirectProg == <<"exec", "invalidate">>
\* DeleteOne, the DeleteMany of the entity's associations, the invalidation
CascadeProg == <<"exec", "cascade", "invalidate">>
\* BeginTxx, DELETE, the INSERTs, Commit, the invalidation
SqlTxProg == <<"begin", "delete", "insert", "commit", "invalidate">>
\* StartSession, DeleteMany and InsertMany under WithSession, the invalidation
SessionProg == <<"session", "delete", "insert", "invalidate">>
PgExecuteTxInvalidateFirst == <<"begin", "callback", "invalidate", "commit">>
\* BeginTxx, fn(txRepo), Commit, the invalidation
PgExecuteTxProg == <<"begin", "callback", "commit", "invalidate">>
\* StartSession, StartTransaction, fn(txRepo), CommitTransaction, the invalidation
MongoExecuteTxProg == <<"session", "start", "callback", "commit", "invalidate">>
\* a service write through GenericManager.ExecuteTx: beginTx, fn(repo), tx.Commit
PgServiceTxProg == <<"begin", "callback", "txCommit">>
MongoServiceTxProg == <<"session", "callback", "txCommit">>

Path(repo, op, backend, entity, prog, patterns, rows) ==
  [repo |-> repo, op |-> op, backend |-> backend, entity |-> entity,
   prog |-> prog, patterns |-> patterns, rows |-> rows]

PgUserPaths ==
  { Path("UserRepository", "Create", "postgres", "user", DirectProg, invalidateUserCache, "n/a"),
    Path("UserRepository", "Update", "postgres", "user", DirectProg, invalidateUserCache, "unchecked"),
    Path("UserRepository", "UpdatePassword", "postgres", "user", DirectProg, invalidateUserCache, "unchecked"),
    Path("UserRepository", "Delete", "postgres", "user", DirectProg, invalidateUserCache, "checked"),
    Path("UserRepository", "AssignRolesToUser", "postgres", "user", SqlTxProg, invalidateUserCache, "n/a") }

PgRolePaths ==
  { Path("RoleRepository", "Create", "postgres", "role", DirectProg, invalidateRoleCache, "n/a"),
    Path("RoleRepository", "Update", "postgres", "role", DirectProg, invalidateRoleCache, "unchecked"),
    Path("RoleRepository", "Delete", "postgres", "role", DirectProg, invalidateRoleCache, "checked"),
    Path("RoleRepository", "AssignPermissionsToRole", "postgres", "role", SqlTxProg,
         invalidateRoleCache \o invalidateUserPermissionCache, "n/a"),
    Path("RoleRepository", "ExecuteTx", "postgres", "role", PgExecuteTxProg, invalidateRoleCache, "n/a") }

PgPermissionPaths ==
  { Path("PermissionRepository", "Create", "postgres", "permission", DirectProg, invalidatePermissionCache, "n/a"),
    Path("PermissionRepository", "Update", "postgres", "permission", DirectProg, invalidatePermissionCache, "unchecked"),
    Path("PermissionRepository", "Delete", "postgres", "permission", DirectProg, invalidatePermissionCache, "checked"),
    Path("PermissionRepository", "ExecuteTx", "postgres", "permission", PgExecuteTxProg, invalidatePermissionCache, "n/a") }

MongoUserPaths ==
  { Path("MongoUserRepository", "Create", "mongodb", "user", DirectProg, invalidateUserCache, "n/a"),
    Path("MongoUserRepository", "Update", "mongodb", "user", DirectProg, invalidateUserCache, "checked"),
    Path("MongoUserRepository", "UpdatePassword", "mongodb", "user", DirectProg, invalidateUserCache, "checked"),
    Path("MongoUserRepository", "Delete", "mongodb", "user", CascadeProg, invalidateUserCache, "checked"),
    Path("MongoUserRepository", "AssignRolesToUser", "mongodb", "user", SessionProg, invalidateUserCache, "n/a") }

MongoRolePaths ==
  { Path("MongoRoleRepository", "Create", "mongodb", "role", DirectProg, invalidateRoleCache, "n/a"),
    Path("MongoRoleRepository", "Update", "mongodb", "role", DirectProg, invalidateRoleCache, "checked"),
    Path("MongoRoleRepository", "Delete", "mongodb", "role", CascadeProg, invalidateRoleCache, "checked"),
    Path("MongoRoleRepository", "AssignPermissionsToRole", "mongodb", "role", SessionProg,
         invalidateRoleCache \o invalidateUserPermissionCache, "n/a"),
    Path("MongoRoleRepository", "ExecuteTx", "mongodb", "role", MongoExecuteTxProg, invalidateRoleCache, "n/a") }

MongoPermissionPaths ==
  { Path("MongoPermissionRepository", "Create", "mongodb", "permission", DirectProg, invalidatePermissionCache, "n/a"),
    Path("MongoPermissionRepository", "Update", "mongodb", "permission", DirectProg, invalidatePermissionCache, "checked"),
    Path("MongoPermissionRepository", "Delete", "mongodb", "permission", DirectProg, invalidatePermissionCache, "checked"),
    Path("MongoPermissionRepository", "ExecuteTx", "mongodb", "permission", MongoExecuteTxProg, invalidatePermissionCache, "n/a") }

\* RoleService.UpdateRole: tx.UpdateRole and tx.AssignPermissionsToRole inside
\* s.txManager.ExecuteTx, no cache call afterwards
PgServicePaths ==
  { Path("RoleService", "UpdateRole", "postgres", "role", PgServiceTxProg, <<>>, "n/a") }
MongoServicePaths ==
  { Path("RoleService", "UpdateRole", "mongodb", "role", MongoServiceTxProg, <<>>, "n/a") }

\* RepositoryFactory: cfg.DBType selects the implementation of every repository
WritePaths ==
  IF dbType = "postgres"
  THEN PgUserPaths \cup PgRolePaths \cup PgPermissionPaths \cup PgServicePaths
  ELSE MongoUserPaths \cup MongoRolePaths \cup MongoPermissionPaths
         \cup MongoServicePaths

\* the statement the running write path is at; "return" once it has an error
\* or has run to its end
Cur ==
  IF write.path = NoPath THEN "none"
  ELSE IF write.err # NilErr \/ write.ip > Len(write.path.prog) THEN "return"
  ELSE write.path.prog[write.ip]

Advance(x) == [x EXCEPT !.ip = @ + 1]
Fail(x, e) == [x EXCEPT !.err = e]
OpErr(what) == <<"failed to ", what, ": ">> \o DriverErr
ErrNotFound(entity) == <<entity, " not found">>

\* PermissionRepository.ExecuteTx and GenericManager.ExecuteTx wrap a failed
\* Rollback; the document-store repositories' ExecuteTx only logs a failed
\* AbortTransaction
WrapsRollback(path) == path.backend = "postgres" \/ path.repo = "RoleService"

RepoExecuteTxOnError(wraps, err, rbErr) ==
  IF wraps /\ rbErr # NilErr
  THEN <<"tx failed: ">> \o err \o <<", unable to rollback: ">> \o rbErr
  ELSE err

\* a request calls one write operation of an entity repository
WStart ==
  /\ Cur = "none"
  /\ \E p \in WritePaths : write' = [NoWrite EXCEPT !.path = p]
  /\ UNCHANGED <<cached, txVars, cacheVars, graphVars, clientVars, authVars, svcVars, mgrVars>>

\* ExecContext / InsertOne / UpdateOne / DeleteOne on the pool
WExec ==
  /\ Cur = "exec"
  /\ \E res \in {"ok", "nomatch", "err"} :
       /\ res = "nomatch" => write.path.rows # "n/a"
       /\ write' = CASE res = "err" -> Fail(write, OpErr(write.path.op))
                     [] res = "nomatch" /\ write.path.rows = "checked"
                          -> Fail(write, ErrNotFound(write.path.entity))
                     [] OTHER -> Advance([write EXCEPT !.durable = TRUE])
  /\ UNCHANGED <<cached, txVars, cacheVars, graphVars, clientVars, authVars, svcVars, mgrVars>>

\* MongoUserRepository.Delete / MongoRoleRepository.Delete: the DeleteMany of the
\* associations; its error is logged and the operation goes on
WCascade ==
  /\ Cur = "cascade"
  /\ \E ok \in BOOLEAN : write' = Advance(write)
  /\ UNCHANGED <<cached, txVars, cacheVars, graphVars, clientVars, authVars, svcVars, mgrVars>>

\* r.db.BeginTxx(ctx, nil)
WBegin ==
  /\ Cur = "begin"
  /\ \E ok \in BOOLEAN :
       write' = IF ok THEN Advance([write EXCEPT !.open = TRUE])
                ELSE Fail(write, Wrap("failed to begin transaction: ", DriverErr))
  /\ UNCHANGED <<cached, txVars, cacheVars, graphVars, clientVars, authVars, svcVars, mgrVars>>

\* r.db.Client.StartSession()
WSession ==
  /\ Cur = "session"
  /\ \E ok \in BOOLEAN :
       write' = IF ok THEN Advance(write)
                ELSE Fail(write, Wrap("failed to start MongoDB session: ", DriverErr))
  /\ UNCHANGED <<cached, txVars, cacheVars, graphVars, clientVars, authVars, svcVars, mgrVars>>

\* sessionContext.StartTransaction()
WStartTransaction ==
  /\ Cur = "start"
  /\ \E ok \in BOOLEAN :
       write' = IF ok THEN Advance([write EXCEPT !.open = TRUE])
                ELSE Fail(write, Wrap("failed to start transaction: ", DriverErr))
  /\ UNCHANGED <<cached, txVars, cacheVars, graphVars, clientVars, authVars, svcVars, mgrVars>>

\* one statement of a standalone association replacement: inside the SQL
\* transaction it is rolled back on failure; under WithSession alone it is
\* applied at once
AssocStatement(x, ok, what) ==
  IF ok
  THEN Advance(IF x.open THEN x ELSE [x EXCEPT !.durable = TRUE])
  ELSE Fail([x EXCEPT !.open = FALSE], OpErr(what))

\* DELETE FROM user_roles / DeleteMany
WDelete ==
  /\ Cur = "delete"
  /\ \E ok \in BOOLEAN : write' = AssocStatement(write, ok, "remove existing")
  /\ UNCHANGED <<cached, txVars, cacheVars, graphVars, clientVars, authVars, svcVars, mgrVars>>

\* the INSERT loop / InsertMany (skipped for an empty id list)
WInsert ==
  /\ Cur = "insert"
  /\ \E ok \in BOOLEAN : write' = AssocStatement(write, ok, "assign")
  /\ UNCHANGED <<cached, txVars, cacheVars, graphVars, clientVars, authVars, svcVars, mgrVars>>

\* err = fn(txRepo); on error Rollback / AbortTransaction and return
WCallback ==
  /\ Cur = "callback"
  /\ \E fnErr \in {NilErr, ErrInvalidRoleID}, rbOk \in BOOLEAN :
       write' = IF fnErr = NilErr THEN Advance(write)
                ELSE Fail([write EXCEPT !.open = FALSE,
                                        !.rbErr = IF rbOk THEN NilErr ELSE DriverErr],
                          RepoExecuteTxOnError(WrapsRollback(write.path), fnErr,
                                               IF rbOk THEN NilErr ELSE DriverErr))
  /\ UNCHANGED <<cached, txVars, cacheVars, graphVars, clientVars, authVars, svcVars, mgrVars>>

\* tx.Commit() / sessionContext.CommitTransaction(sessionContext)
WCommit ==
  /\ Cur = "commit"
  /\ \E ok \in BOOLEAN :
       write' = IF ok THEN Advance([write EXCEPT !.durable = TRUE, !.open = FALSE])
                ELSE Fail(write, Wrap("failed to commit transaction: ", DriverErr))
  /\ UNCHANGED <<cached, txVars, cacheVars, graphVars, clientVars, authVars, svcVars, mgrVars>>

\* GenericManager.ExecuteTx: tx.Commit() on the handle of the transaction
\* manager; on the document store the session has no transaction left after
\* the callback's writes
WTxCommit ==
  /\ Cur = "txCommit"
  /\ \E ok \in BOOLEAN :
       write' =
         IF write.path.backend = "mongodb"
         THEN Fail(write, Wrap("failed to commit transaction: ", ErrNoTransactStarted))
         ELSE IF ok THEN Advance([write EXCEPT !.durable = TRUE, !.open = FALSE])
         ELSE Fail(write, Wrap("failed to commit transaction: ", DriverErr))
  /\ UNCHANGED <<cached, txVars, cacheVars, graphVars, clientVars, authVars, svcVars, mgrVars>>

\* r.invalidate...Cache(): DeleteByPattern for each pattern of the repository;
\* a failed DeleteByPattern is logged
WInvalidate ==
  /\ Cur = "invalidate"
  /\ \E ok \in [1..Len(write.path.patterns) -> BOOLEAN] :
       /\ cached' = DeleteByPatterns(cached, write.path.patterns, ok, 1)
       /\ write' = Advance([write EXCEPT !.inval = TRUE,
                                         !.logged = \E i \in DOMAIN ok : ~ok[i]])
  /\ UNCHANGED <<txVars, cacheVars, graphVars, clientVars, authVars, svcVars, mgrVars>>

\* the operation returns write.err to its caller
WReturn ==
  /\ Cur = "return"
  /\ write' = NoWrite
  /\ UNCHANGED <<cached, txVars, cacheVars, graphVars, clientVars, authVars, svcVars, mgrVars>>

\* a read operation misses, queries the backend and caches what it found
CacheAsideRead ==
  /\ \E k \in CacheKeys \ cached : cached' = cached \cup {k}
  /\ UNCHANGED <<write, txVars, cacheVars, graphVars, clientVars, authVars, svcVars, mgrVars>>

RepoNext ==
  \/ WStart
  \/ WExec
  \/ WCascade
  \/ WBegin
  \/ WSession
  \/ WStartTransaction
  \/ WDelete
  \/ WInsert
  \/ WCallback
  \/ WCommit
  \/ WTxCommit
  \/ WInvalidate
  \/ WReturn
  \/ CacheAsideRead

RepoSpec == Init /\ [][RepoNext]_vars

\* C8: in every repository write path the cache patterns are deleted only after
\* the backend write or the commit has succeeded: never while the transaction is
\* still open, and never in an operation whose write, callback or commit failed.
C8_InvalidateOnlyAfterSuccess ==
  write.inval => (write.durable /\ ~write.open /\ write.err = NilErr)

C8_Witness ==
  /\ write.inval /\ Cur = "return"
  /\ write.path.repo = "PermissionRepository" /\ write.path.op = "ExecuteTx"

\* ------------------------------------------- cache-aside reads and writes

\* cacheKey := fmt.Sprintf("user:%s", id.String())
UserKey == <<"user", "id">>

\* what is left under UserKey after an invalidate helper ran
AfterInvalidate(held, patterns) ==
  IF DeleteByPatterns({UserKey}, patterns, [i \in 1..Len(patterns) |-> TRUE], 1) = {}
  THEN NoVersion ELSE held

Settled(q) == proc[q].pc \in {"idle", "done"}

\* GetByID hands the user version v, or the error e, to its caller.  Inside
\* UserService.UpdateUser the first GetByID feeds the transaction and a failure
\* of the second is only logged: the response is then built from the user
\* object that was written.
GetByIDReturn(x, v, e) ==
  CASE x.job = "GetByID" -> [x EXCEPT !.pc = "done", !.resp = v, !.err = e]
    [] x.phase = 1 /\ e # NilErr -> [x EXCEPT !.pc = "done", !.err = e]
    [] x.phase = 1 /\ e = NilErr -> [x EXCEPT !.pc = "executeTx"]
    [] OTHER -> [x EXCEPT !.pc = "done",
                          !.resp = IF e = NilErr THEN v ELSE x.wrote]

\* a request calls userRepo.GetByID; floor is the version every write had
\* committed and invalidated when the read began with no other request running
GetByIDBegin(p) ==
  /\ proc[p].pc = "idle"
  /\ proc' = [proc EXCEPT ![p] =
       [@ EXCEPT !.job = "GetByID", !.pc = "cacheGet",
                 !.floor = IF \A q \in Procs \ {p} : Settled(q)
                           THEN db ELSE NoVersion]]
  /\ UNCHANGED <<db, cache, txVars, repoVars, graphVars, clientVars, authVars, svcVars, mgrVars>>

\* found, err := r.cache.Get(cacheKey, &user); on a hit the roles are re-read
\* and the cached user is returned
CacheGet(p) ==
  /\ proc[p].pc = "cacheGet"
  /\ IF cache # NoVersion
     THEN \E rolesOk \in BOOLEAN :
            proc' = [proc EXCEPT ![p] =
              GetByIDReturn(@, cache, IF rolesOk THEN NilErr ELSE OpErr("get user roles"))]
     ELSE proc' = [proc EXCEPT ![p].pc = "dbRead"]
  /\ UNCHANGED <<db, cache, txVars, repoVars, graphVars, clientVars, authVars, svcVars, mgrVars>>

\* r.db.GetContext(ctx, &user, query, id) and r.GetUserRoles(ctx, id)
DbRead(p) ==
  /\ proc[p].pc = "dbRead"
  /\ \E ok \in BOOLEAN :
       proc' = [proc EXCEPT ![p] =
         IF ok THEN [@ EXCEPT !.pc = "cacheSet", !.seen = db]
         ELSE GetByIDReturn(@, NoVersion, OpErr("get user"))]
  /\ UNCHANGED <<db, cache, txVars, repoVars, graphVars, clientVars, authVars, svcVars, mgrVars>>

\* r.cache.Set(cacheKey, user); return &user, nil
CacheSet(p) ==
  /\ proc[p].pc = "cacheSet"
  /\ cache' = proc[p].seen
  /\ proc' = [proc EXCEPT ![p] = GetByIDReturn(@, @.seen, NilErr)]
  /\ UNCHANGED <<db, txVars, repoVars, graphVars, clientVars, authVars, svcVars, mgrVars>>

\* a request calls UserRepository.Update
RepoUpdateBegin(p) ==
  /\ proc[p].pc = "idle"
  /\ proc' = [proc EXCEPT ![p] = [@ EXCEPT !.job = "Update", !.pc = "exec"]]
  /\ UNCHANGED <<db, cache, txVars, repoVars, graphVars, clientVars, authVars, svcVars, mgrVars>>

\* r.db.ExecContext(ctx, query, ...): the UPDATE commits, or fails
RepoUpdateExec(p) ==
  /\ proc[p].pc = "exec"
  /\ \E ok \in BOOLEAN :
       IF ok
       THEN /\ db' = db + 1
            /\ proc' = [proc EXCEPT ![p] = [@ EXCEPT !.pc = "invalidate", !.wrote = db + 1]]
       ELSE /\ db' = db
            /\ proc' = [proc EXCEPT ![p] = [@ EXCEPT !.pc = "done", !.err = OpErr("update user")]]
  /\ UNCHANGED <<cache, txVars, repoVars, graphVars, clientVars, authVars, svcVars, mgrVars>>

\* r.invalidateUserCache(); return nil
RepoUpdateInvalidate(p) ==
  /\ proc[p].pc = "invalidate"
  /\ cache' = AfterInvalidate(cache, invalidateUserCache)
  /\ proc' = [proc EXCEPT ![p].pc = "done"]
  /\ UNCHANGED <<db, txVars, repoVars, graphVars, clientVars, authVars, svcVars, mgrVars>>

\* a request calls UserService.UpdateUser, which starts with userRepo.GetByID
UpdateUserBegin(p) ==
  /\ proc[p].pc = "idle"
  /\ proc' = [proc EXCEPT ![p] =
       [@ EXCEPT !.job = "UpdateUser", !.pc = "cacheGet", !.phase = 1]]
  /\ UNCHANGED <<db, cache, txVars, repoVars, graphVars, clientVars, authVars, svcVars, mgrVars>>

\* what s.txManager.ExecuteTx leaves in the backend when it returns an error:
\* the relational transaction is rolled back, the document-store write stays
AfterFailedTx == IF dbType = "mongodb" THEN {db, db + 1} ELSE {db}

\* err = s.txManager.ExecuteTx(ctx, func(tx) { tx.UpdateUser(ctx, user) ... });
\* on success UpdateUser goes on to userRepo.GetByID(ctx, user.ID)
UpdateUserExecuteTx(p) ==
  /\ proc[p].pc = "executeTx"
  /\ \E ok \in BOOLEAN :
       IF ok
       THEN /\ db' = db + 1
            /\ proc' = [proc EXCEPT ![p] =
                 [@ EXCEPT !.pc = "cacheGet", !.phase = 2, !.wrote = db + 1]]
       ELSE /\ db' \in AfterFailedTx
            /\ proc' = [proc EXCEPT ![p] =
                 [@ EXCEPT !.pc = "done", !.err = Wrap("failed to update user: ", DriverErr)]]
  /\ UNCHANGED <<cache, txVars, repoVars, graphVars, clientVars, authVars, svcVars, mgrVars>>

\* the entry's TTL runs out
CacheExpire ==
  /\ cache # NoVersion
  /\ cache' = NoVersion
  /\ UNCHANGED <<db, proc, txVars, repoVars, graphVars, clientVars, authVars, svcVars, mgrVars>>

CacheNext ==
  \/ \E p \in Procs : GetByIDBegin(p)
  \/ \E p \in Procs : CacheGet(p)
  \/ \E p \in Procs : DbRead(p)
  \/ \E p \in Procs : CacheSet(p)
  \/ \E p \in Procs : RepoUpdateBegin(p)
  \/ \E p \in Procs : RepoUpdateExec(p)
  \/ \E p \in Procs : RepoUpdateInvalidate(p)
  \/ \E p \in Procs : UpdateUserBegin(p)
  \/ \E p \in Procs : UpdateUserExecuteTx(p)
  \/ CacheExpire

CacheSpec == Init /\ [][CacheNext]_vars

\* C9: after UserService.UpdateUser has written through the transaction
\* manager, the user cache is invalidated, so that the GetByID that follows
\* returns the data just written even when the user was cached before.
C9_ServiceWriteInvalidates ==
  \A p \in Procs :
    ( /\ proc[p].job = "UpdateUser" /\ proc[p].pc = "done" /\ proc[p].err = NilErr
      /\ \A q \in Procs \ {p} : proc[q] = IdleProc )
    => proc[p].resp = proc[p].wrote

\* C10: with reads and repository writes interleaved in any way, a read that
\* begins once every write has committed and invalidated and every earlier read
\* has returned does not return data from before those writes.
C10_NoStaleReadAfterInvalidation ==
  (\A q \in Procs : proc[q].job # "UpdateUser")
  => \A p \in Procs :
       (proc[p].job = "GetByID" /\ proc[p].pc = "done" /\ proc[p].err = NilErr)
       => proc[p].resp >= proc[p].floor

\* ------------------------------------------ updates of an id that is not there

\* C13: an update of an id that does not exist returns an error of the same
\* not-found kind from the relational and from the document-store scoped
\* repository, whatever the state it runs against.
C13_SameNotFoundKind ==
  \A id \in UserIds, val \in Vals :
    CurView.users[id] = Absent
    => /\ Contains(PgUpdateUser(CurView, id, val, FALSE).err, ErrUserNotFound)
       /\ Contains(MongoUpdateUser(CurView, id, val, FALSE).err, ErrUserNotFound)

\* ------------------------------------------------------------ cancellation

\* C12: when the caller's context is cancelled while the callback is running,
\* ExecuteTx calls Rollback, never calls Commit, and returns an error.
C12_CancelTakesRollbackPath ==
  (ctxDone /\ pc = "returned")
  => (calls.rollback = 1 /\ calls.commit = 0 /\ ret # NilErr)

\* =====================================================================
\* The permission graph: users, roles, permissions and the two association
\* tables, as the entity repositories of both backends read and write them.
\* Every entity exists at the start; gcache is the "user:<id>" entry of the
\* cache-aside user read.

AssocLists(S) == UNION {[1..n -> S] : n \in 0..MaxAssocList}
Range(s) == {s[k] : k \in 1..Len(s)}

\* UserRepository.GetUserRoles: SELECT r.* FROM roles r JOIN user_roles ur ...;
\* MongoUserRepository.GetUserRoles: Find on user_roles, then FindOne per role
\* id, skipping the ids that have no role document. The same set either way.
GetUserRoles(g, userID) == {r \in g.roles : <<userID, r>> \in g.user_roles}

\* UserRepository.HasPermission: SELECT EXISTS over permissions JOIN
\* role_permissions JOIN user_roles
PgHasPermission(g, userID, p) ==
  \E r \in RoleIds :
    /\ p \in g.permissions
    /\ <<r, p>> \in g.role_permissions
    /\ <<userID, r>> \in g.user_roles

\* the role ids and the count on role_permissions, without the lookup of the
\* permission document
MongoHasPermissionNoLookup(g, userID, p) ==
  LET roleIDs == {r \in RoleIds : <<userID, r>> \in g.user_roles}
  IN  IF roleIDs = {} THEN FALSE
      ELSE \E r \in roleIDs : <<r, p>> \in g.role_permissions

\* MongoUserRepository.HasPermission: the user's role ids (none: false), the
\* permission document by resource and action (none: false), then one
\* CountDocuments on role_permissions per role id
MongoHasPermission(g, userID, p) ==
  LET roleIDs == {r \in RoleIds : <<userID, r>> \in g.user_roles}
  IN  IF roleIDs = {} THEN FALSE
      ELSE IF p \notin g.permissions THEN FALSE
      ELSE \E r \in roleIDs : <<r, p>> \in g.role_permissions

HasPermission(g, userID, p) ==
  IF dbType = "postgres" THEN PgHasPermission(g, userID, p)
  ELSE MongoHasPermission(g, userID, p)

\* ------------------------------------------------------------- deletes
\* [view |-> the store afterwards, err |-> the error returned]

\* UserRepository.Delete: DELETE FROM users; user_roles rows go with the user
\* (user_id ... REFERENCES users(id) ON DELETE CASCADE)
PgDeleteUser(g, id, fail) ==
  IF fail THEN Res(g, Wrap("failed to delete user: ", DriverErr))
  ELSE IF g.users[id] = Absent THEN Res(g, ErrNotFound("user"))
  ELSE Res([g EXCEPT !.users[id] = Absent,
                     !.user_roles = {p \in @ : p[1] # id}], NilErr)

\* RoleRepository.Delete: both association tables reference roles(id)
\* ON DELETE CASCADE
PgDeleteRole(g, id, fail) ==
  IF fail THEN Res(g, Wrap("failed to delete role: ", DriverErr))
  ELSE IF id \notin g.roles THEN Res(g, ErrNotFound("role"))
  ELSE Res([g EXCEPT !.roles = @ \ {id},
                     !.user_roles = {p \in @ : p[2] # id},
                     !.role_permissions = {p \in @ : p[1] # id}], NilErr)

\* PermissionRepository.Delete: role_permissions references permissions(id)
\* ON DELETE CASCADE
PgDeletePermission(g, id, fail) ==
  IF fail THEN Res(g, Wrap("failed to delete permission: ", DriverErr))
  ELSE IF id \notin g.permissions THEN Res(g, ErrNotFound("permission"))
  ELSE Res([g EXCEPT !.permissions = @ \ {id},
                     !.role_permissions = {p \in @ : p[2] # id}], NilErr)

\* MongoUserRepository.Delete: DeleteOne, then DeleteMany on user_roles whose
\* failure is only logged
MongoDeleteUser(g, id, fail, cascadeOk) ==
  IF fail THEN Res(g, Wrap("failed to delete user from MongoDB: ", DriverErr))
  ELSE IF g.users[id] = Absent THEN Res(g, ErrNotFound("user"))
  ELSE Res([g EXCEPT !.users[id] = Absent,
                     !.user_roles = IF cascadeOk THEN {p \in @ : p[1] # id} ELSE @],
           NilErr)

\* MongoRoleRepository.Delete: DeleteOne, then DeleteMany on role_permissions
\* only, whose failure is only logged
MongoDeleteRole(g, id, fail, cascadeOk) ==
  IF fail THEN Res(g, Wrap("failed to delete role from MongoDB: ", DriverErr))
  ELSE IF id \notin g.roles THEN Res(g, ErrNotFound("role"))
  ELSE Res([g EXCEPT !.roles = @ \ {id},
                     !.role_permissions =
                        IF cascadeOk THEN {p \in @ : p[1] # id} ELSE @],
           NilErr)

\* MongoPermissionRepository.Delete: DeleteOne on permissions, nothing else
MongoDeletePermission(g, id, fail) ==
  IF fail THEN Res(g, Wrap("failed to delete permission from MongoDB: ", DriverErr))
  ELSE IF id \notin g.permissions THEN Res(g, ErrNotFound("permission"))
  ELSE Res([g EXCEPT !.permissions = @ \ {id}], NilErr)

\* ------------------------------------------- permissions of a role, replaced
RECURSIVE InsertRolePermissions(_, _, _, _, _)
\* one insert into role_permissions per id of the list, in order, stopping at
\* the first that fails
InsertRolePermissions(view, roleID, permissionIDs, k, cfg) ==
  IF k > Len(permissionIDs) THEN Res(view, NilErr)
  ELSE IF k = cfg.failAt THEN Res(view, DriverErr)
  ELSE IF cfg.fk /\ (roleID \notin view.roles \/ permissionIDs[k] \notin view.permissions)
    THEN Res(view, ErrForeignKey)
  ELSE IF <<roleID, permissionIDs[k]>> \in view.role_permissions
    THEN Res(view, ErrDuplicateKey)
  ELSE InsertRolePermissions(
         [view EXCEPT !.role_permissions = @ \cup {<<roleID, permissionIDs[k]>>}],
         roleID, permissionIDs, k + 1, cfg)

\* the rows of the role left in place
KeepRolePermissions(view, roleID) == view

\* DELETE FROM role_permissions WHERE role_id = $1; DeleteMany by role_id
DeleteRolePermissions(view, roleID) ==
  [view EXCEPT !.role_permissions = {p \in @ : p[1] # roleID}]

\* RoleRepository.AssignPermissionsToRole: BeginTxx, DELETE, one INSERT per id,
\* Commit; Rollback on the first failure. failAt: 0 the DELETE (or BeginTxx),
\* k the k-th INSERT, Len + 1 the Commit, beyond that nothing fails.
PgAssignPermissionsToRole(g, roleID, permissionIDs, failAt) ==
  IF failAt = 0
  THEN Res(g, Wrap("failed to remove existing permissions: ", DriverErr))
  ELSE LET r == InsertRolePermissions(DeleteRolePermissions(g, roleID), roleID,
                  permissionIDs, 1, [failAt |-> failAt, fk |-> TRUE])
       IN  IF r.err # NilErr THEN Res(g, Wrap("failed to assign permission: ", r.err))
           ELSE IF failAt = Len(permissionIDs) + 1
             THEN Res(g, Wrap("failed to commit transaction: ", DriverErr))
           ELSE r

\* MongoRoleRepository.AssignPermissionsToRole: DeleteMany, then one ordered
\* InsertMany (skipped for an empty list) inside WithSession; no transaction
\* is started, so what a failed InsertMany leaves stays.
MongoAssignPermissionsToRole(g, roleID, permissionIDs, failAt) ==
  IF failAt = 0
  THEN Res(g, Wrap("failed to assign permissions transaction: ",
                   Wrap("failed to remove existing permissions: ", DriverErr)))
  ELSE IF Len(permissionIDs) = 0 THEN Res(DeleteRolePermissions(g, roleID), NilErr)
  ELSE WrapIfErr("failed to assign permissions transaction: ",
         WrapIfErr("failed to assign permissions: ",
           InsertRolePermissions(DeleteRolePermissions(g, roleID), roleID,
                                 permissionIDs, 1, [failAt |-> failAt, fk |-> FALSE])))

\* ------------------------------------------------------------- actions
Postgres == dbType = "postgres"

Op(op, id, ids, err) ==
  [op |-> op, id |-> id, ids |-> ids, err |-> err, roles |-> {}, hit |-> FALSE]

\* invalidateUserCache: DeleteByPattern("user:*"), whose failure is only logged
InvalidateUserEntries(done) ==
  \E deleted \in BOOLEAN :
    gcache' = IF done /\ deleted THEN [u \in UserIds |-> NoPayload] ELSE gcache

\* the replacement of a user's roles returns err; only the entity repository's
\* own AssignRolesToUser clears the user cache, and only on success
AssignRolesReturn(err) ==
  /\ repl' = NoRepl
  /\ last' = Op("AssignRolesToUser", repl.user, repl.ids, err)
  /\ InvalidateUserEntries(err = NilErr /\ repl.kind = "standalone")

\* UserRepository.AssignRolesToUser / MongoUserRepository.AssignRolesToUser
\* ("standalone"), or the scoped AssignRolesToUser inside ExecuteTx
\* ("executeTx"): BeginTxx, StartSession
AssignRolesBegin ==
  /\ repl.pc = "idle"
  /\ \E kind \in {"standalone", "executeTx"}, u \in UserIds,
        roleIDs \in AssocLists(RoleIds), ok \in BOOLEAN :
       IF ok
       THEN /\ repl' = [pc |-> "delete", kind |-> kind, user |-> u, ids |-> roleIDs,
                        old |-> GetUserRoles(gstore, u), buf |-> gstore]
            /\ last' = NoOp
       ELSE /\ repl' = repl
            /\ last' = Op("AssignRolesToUser", u, roleIDs,
                          Wrap("failed to begin transaction: ", DriverErr))
  /\ UNCHANGED <<gstore, gcache, txVars, repoVars, cacheVars, clientVars, authVars, svcVars, mgrVars>>

\* DELETE FROM user_roles WHERE user_id = $1 inside the sql transaction;
\* DeleteMany on a session that has no transaction, applied at once
AssignRolesDelete ==
  /\ repl.pc = "delete"
  /\ \E ok \in BOOLEAN :
       IF ok
       THEN /\ IF Postgres
               THEN /\ repl' = [repl EXCEPT !.pc = "insert",
                                            !.buf = DeleteUserRoles(@, repl.user)]
                    /\ gstore' = gstore
               ELSE /\ repl' = [repl EXCEPT !.pc = "insert"]
                    /\ gstore' = DeleteUserRoles(gstore, repl.user)
            /\ last' = NoOp
            /\ gcache' = gcache
       ELSE /\ AssignRolesReturn(Wrap("failed to remove existing roles: ", DriverErr))
            /\ gstore' = gstore
  /\ UNCHANGED <<txVars, repoVars, cacheVars, clientVars, authVars, svcVars, mgrVars>>

\* one INSERT per role id, Rollback on the first failure; one ordered
\* InsertMany that keeps the documents inserted before a failure
AssignRolesInsert ==
  /\ repl.pc = "insert"
  /\ \E failAt \in 1..(Len(repl.ids) + 1) :
       LET cfg == [failAt |-> failAt, fk |-> Postgres]
           r == IF Postgres
                THEN IF \E k \in 1..Len(repl.ids) : repl.ids[k] \notin repl.buf.roles
                     THEN Res(repl.buf, ErrForeignKey)
                     ELSE InsertUserRoles(repl.buf, repl.user, repl.ids, 1, cfg)
                ELSE IF Len(repl.ids) = 0 THEN Res(gstore, NilErr)
                ELSE InsertUserRoles(gstore, repl.user, repl.ids, 1, cfg)
       IN  /\ gstore' = IF Postgres THEN gstore ELSE r.view
           /\ IF r.err # NilErr
              THEN AssignRolesReturn(Wrap("failed to assign role: ", r.err))
              ELSE IF Postgres \/ repl.kind = "executeTx"
              THEN /\ repl' = [repl EXCEPT !.pc = "commit",
                                           !.buf = IF Postgres THEN r.view ELSE @]
                   /\ last' = NoOp
                   /\ gcache' = gcache
              ELSE AssignRolesReturn(NilErr)
  /\ UNCHANGED <<txVars, repoVars, cacheVars, clientVars, authVars, svcVars, mgrVars>>

\* sqlx.Tx.Commit publishes the buffered rows; MongoTx.Commit finds no
\* transaction on the session after the writes and returns the driver's error
AssignRolesCommit ==
  /\ repl.pc = "commit"
  /\ IF Postgres
     THEN \E ok \in BOOLEAN :
            IF ok THEN gstore' = repl.buf /\ AssignRolesReturn(NilErr)
            ELSE /\ gstore' = gstore
                 /\ AssignRolesReturn(Wrap("failed to commit transaction: ", DriverErr))
     ELSE /\ gstore' = gstore
          /\ AssignRolesReturn(Wrap("failed to commit transaction: ",
                                    ErrNoTransactStarted))
  /\ UNCHANGED <<txVars, repoVars, cacheVars, clientVars, authVars, svcVars, mgrVars>>

\* RoleRepository.AssignPermissionsToRole / MongoRoleRepository.AssignPermissionsToRole
AssignPermissionsToRole ==
  /\ repl.pc = "idle"
  /\ \E roleID \in RoleIds, permissionIDs \in AssocLists(PermIds) :
       \E failAt \in 0..(Len(permissionIDs) + 2) :
         LET r == IF Postgres
                  THEN PgAssignPermissionsToRole(gstore, roleID, permissionIDs, failAt)
                  ELSE MongoAssignPermissionsToRole(gstore, roleID, permissionIDs, failAt)
         IN  /\ gstore' = r.view
             /\ last' = Op("AssignPermissionsToRole", roleID, permissionIDs, r.err)
  /\ UNCHANGED <<gcache, repl, txVars, repoVars, cacheVars, clientVars, authVars, svcVars, mgrVars>>

\* UserRepository.Delete / MongoUserRepository.Delete
DeleteUser ==
  /\ repl.pc = "idle"
  /\ \E id \in UserIds, fail \in BOOLEAN, cascadeOk \in BOOLEAN :
       LET r == IF Postgres THEN PgDeleteUser(gstore, id, fail)
                ELSE MongoDeleteUser(gstore, id, fail, cascadeOk)
       IN  /\ gstore' = r.view
           /\ last' = Op("DeleteUser", id, <<>>, r.err)
           /\ InvalidateUserEntries(r.err = NilErr)
  /\ UNCHANGED <<repl, txVars, repoVars, cacheVars, clientVars, authVars, svcVars, mgrVars>>

\* RoleRepository.Delete / MongoRoleRepository.Delete
DeleteRole ==
  /\ repl.pc = "idle"
  /\ \E id \in RoleIds, fail \in BOOLEAN, cascadeOk \in BOOLEAN :
       LET r == IF Postgres THEN PgDeleteRole(gstore, id, fail)
                ELSE MongoDeleteRole(gstore, id, fail, cascadeOk)
       IN  /\ gstore' = r.view
           /\ last' = Op("DeleteRole", id, <<>>, r.err)
  /\ UNCHANGED <<gcache, repl, txVars, repoVars, cacheVars, clientVars, authVars, svcVars, mgrVars>>

\* PermissionRepository.Delete / MongoPermissionRepository.Delete
DeletePermission ==
  /\ repl.pc = "idle"
  /\ \E id \in PermIds, fail \in BOOLEAN :
       LET r == IF Postgres THEN PgDeletePermission(gstore, id, fail)
                ELSE MongoDeletePermission(gstore, id, fail)
       IN  /\ gstore' = r.view
           /\ last' = Op("DeletePermission", id, <<>>, r.err)
  /\ UNCHANGED <<gcache, repl, txVars, repoVars, cacheVars, clientVars, authVars, svcVars, mgrVars>>

\* the roles a cache hit would return if it kept the cached user's own
CachedRoles(payload, live) == payload.roles

\* GetByID on a cache hit: user.Roles is overwritten with GetUserRoles
HitRoles(payload, live) == live

\* UserRepository.GetByID / MongoUserRepository.GetByID, at any moment, also
\* while a replacement is between two of its statements
GetByID ==
  /\ \E id \in UserIds :
       LET live == GetUserRoles(gstore, id)
       IN  IF gcache[id].cached
           THEN /\ last' = [Op("GetByID", id, <<>>, NilErr) EXCEPT
                              !.roles = HitRoles(gcache[id], live), !.hit = TRUE]
                /\ gcache' = gcache
           ELSE IF gstore.users[id] = Absent
           THEN /\ last' = Op("GetByID", id, <<>>, ErrNotFound("user"))
                /\ gcache' = gcache
           ELSE /\ last' = [Op("GetByID", id, <<>>, NilErr) EXCEPT !.roles = live]
                /\ gcache' = [gcache EXCEPT ![id] = [cached |-> TRUE, roles |-> live]]
  /\ UNCHANGED <<gstore, repl, txVars, repoVars, cacheVars, clientVars, authVars, svcVars, mgrVars>>

GraphNext ==
  \/ AssignRolesBegin
  \/ AssignRolesDelete
  \/ AssignRolesInsert
  \/ AssignRolesCommit
  \/ AssignPermissionsToRole
  \/ DeleteUser
  \/ DeleteRole
  \/ DeletePermission
  \/ GetByID

GraphSpec == Init /\ [][GraphNext]_vars

\* ------------------------------------------------------------- C11
\* a replacement of a non-empty role set by another non-empty one is between
\* its first statement and its return
Replacing ==
  /\ repl.pc \in {"delete", "insert", "commit"}
  /\ repl.old # {}
  /\ Range(repl.ids) \cap gstore.roles # {}

\* C11: while a user's roles are being replaced from one non-empty set to
\* another, a concurrent GetUserRoles never sees the intermediate state in
\* which the old roles are deleted and the new ones not yet inserted.
C11_NoIntermediateStateObserved ==
  Replacing => GetUserRoles(gstore, repl.user) # {}

\* ------------------------------------------------------------- C14
RolesOfUser(g, userID) == {r \in RoleIds : <<userID, r>> \in g.user_roles}
PermissionsOfRole(g, roleID) == {p \in PermIds : <<roleID, p>> \in g.role_permissions}

\* C14: when a replacement of a user's roles or of a role's permissions with
\* the id list L has returned without error, the parent's association rows are
\* exactly the ids of L (none for the empty list), whatever rows it had before
\* and in whatever order L names them; so is it after the same call again.
C14_ReplacementLeavesExactlyL ==
  /\ (last.op = "AssignRolesToUser" /\ last.err = NilErr)
       => RolesOfUser(gstore, last.id) = Range(last.ids)
  /\ (last.op = "AssignPermissionsToRole" /\ last.err = NilErr)
       => PermissionsOfRole(gstore, last.id) = Range(last.ids)

\* a replacement by two roles named in descending order has succeeded
C14_Witness ==
  /\ last.op = "AssignRolesToUser" /\ last.err = NilErr
  /\ Len(last.ids) = 2 /\ last.ids[1] > last.ids[2]
  /\ RolesOfUser(gstore, last.id) = Range(last.ids)

\* ------------------------------------------------------------- C15
\* C15: GetByID returns the roles the backend stores for the user at that
\* moment, also when the user itself comes from a cache entry written while
\* the user had other roles.
C15_HitReturnsLiveRoles ==
  (last.op = "GetByID" /\ last.err = NilErr)
    => last.roles = GetUserRoles(gstore, last.id)

\* a hit on an entry cached with one non-empty role set returned another
C15_Witness ==
  /\ last.op = "GetByID" /\ last.hit
  /\ gcache[last.id].roles # {}
  /\ last.roles # {}
  /\ last.roles # gcache[last.id].roles

\* ------------------------------------------------------------- C16
\* C16: a user holding a role that an existing permission is assigned to has
\* that permission; once the permission is deleted no user has it, whatever
\* association rows are left and whatever the cache holds.
C16_HasPermissionFollowsGraph ==
  \A u \in UserIds, p \in PermIds :
    /\ (/\ p \in gstore.permissions
        /\ \E r \in RoleIds : <<u, r>> \in gstore.user_roles
                              /\ <<r, p>> \in gstore.role_permissions)
         => HasPermission(gstore, u, p)
    /\ p \notin gstore.permissions => ~HasPermission(gstore, u, p)

\* a permission was deleted while a user held a role it was assigned to, and
\* the rows that granted it are still there
C16_Witness ==
  /\ last.op = "DeletePermission" /\ last.err = NilErr
  /\ \E u \in UserIds, r \in RoleIds :
       /\ <<u, r>> \in gstore.user_roles
       /\ <<r, last.id>> \in gstore.role_permissions
  /\ \A u \in UserIds : ~HasPermission(gstore, u, last.id)

\* ------------------------------------------------------------- C17
\* C17: after a successful delete of a user, a role or a permission no
\* user_roles or role_permissions row references the deleted id.
C17_DeleteLeavesNoReference ==
  last.err = NilErr =>
    /\ last.op = "DeleteUser" => \A ur \in gstore.user_roles : ur[1] # last.id
    /\ last.op = "DeleteRole" =>
         /\ \A ur \in gstore.user_roles : ur[2] # last.id
         /\ \A rp \in gstore.role_permissions : rp[1] # last.id
    /\ last.op = "DeletePermission" =>
         \A rp \in gstore.role_permissions : rp[2] # last.id

\* ------------------------------------------------------------- C18
\* the keys the read operations of an entity type populate
KeysOf(entity) ==
  CASE entity = "user" -> UserKeys
    [] entity = "role" -> RoleKeys
    [] entity = "permission" -> PermissionKeys
    [] OTHER -> {}

\* create, update, update-password, delete, association replacement
DirectWrite(path) == path.prog \in {DirectProg, CascadeProg, SqlTxProg, SessionProg}

\* the step in which a direct write runs its invalidate helper
InvalidationStep == DirectWrite(write.path) /\ ~write.inval /\ write'.inval

ChangesPermissionGraph(path) ==
  \/ path.entity = "permission" /\ path.op \in {"Create", "Update", "Delete"}
  \/ path.op \in {"AssignPermissionsToRole", "UpdateRole"}

\* C19: a write that changes the permission graph and returns without error
\* has deleted the role cache patterns and the per-user permissions pattern.
C19_GraphWritesInvalidateRolesAndUserPermissions ==
  (Cur = "return" /\ write.err = NilErr /\ ChangesPermissionGraph(write.path))
    => /\ write.inval
       /\ Range(invalidateRoleCache \o invalidateUserPermissionCache)
            \subseteq Range(write.path.patterns)

\* =====================================================================
\* The cache client.  rc.up: the cache server answers; rc.keys: what the server
\* holds (other instances of the service write to it too); rc.contacts: the
\* calls of this client, after its construction, that sent a command to the
\* server; rc.res: what the last call returned.

ClientKeys == {<<"user", "id">>, <<"users", "count">>, <<"role", "id">>}
ClientPatterns == {<<"user">>, <<"users">>}

Result(op, found, err) == [op |-> op, found |-> found, err |-> err]

\* a command is sent to the server; it fails when the server does not answer
Command(c, op, found, keys, what) ==
  IF c.up
  THEN [c EXCEPT !.contacts = @ + 1, !.keys = keys, !.res = Result(op, found, NilErr)]
  ELSE [c EXCEPT !.contacts = @ + 1,
                 !.res = Result(op, FALSE, Wrap(what, DriverErr))]

\* RedisClient.Get with the enabled check left out
GetUnguarded(c, key) ==
  Command(c, "Get", key \in c.keys, c.keys, "failed to get from cache: ")

\* RedisClient.Get
Get(c, key) ==
  IF ~c.enabled THEN [c EXCEPT !.res = Result("Get", FALSE, NilErr)]
  ELSE Command(c, "Get", key \in c.keys, c.keys, "failed to get from cache: ")

\* RedisClient.SetWithTTL
SetWithTTL(c, op, key) ==
  IF ~c.enabled THEN [c EXCEPT !.res = Result(op, FALSE, NilErr)]
  ELSE Command(c, op, FALSE, c.keys \cup {key}, "failed to set cache: ")

\* RedisClient.Set: return c.SetWithTTL(key, value, c.ttl)
Set(c, key) == SetWithTTL(c, "Set", key)

\* RedisClient.Delete
Delete(c, key) ==
  IF ~c.enabled THEN [c EXCEPT !.res = Result("Delete", FALSE, NilErr)]
  ELSE Command(c, "Delete", FALSE, c.keys \ {key}, "failed to delete from cache: ")

\* RedisClient.DeleteByPattern: KEYS, then DEL of what KEYS returned
ClientDeleteByPattern(c, pattern) ==
  IF ~c.enabled THEN [c EXCEPT !.res = Result("DeleteByPattern", FALSE, NilErr)]
  ELSE Command(c, "DeleteByPattern", FALSE, DeleteByPattern(c.keys, pattern),
               "failed to find keys matching pattern: ")

\* an enabled client may send another command
MayContact == rc.enabled => rc.contacts < MaxContacts

\* NewRedisClient: Ping decides enabled once; the error returned is nil either way
NewRedisClient ==
  /\ ~rc.built
  /\ rc' = [rc EXCEPT !.built = TRUE, !.enabled = rc.up,
                      !.res = Result("NewRedisClient", FALSE, NilErr)]
  /\ UNCHANGED <<txVars, repoVars, cacheVars, graphVars, authVars, svcVars, mgrVars>>

RedisClientGet ==
  /\ rc.built /\ MayContact
  /\ \E key \in ClientKeys : rc' = Get(rc, key)
  /\ UNCHANGED <<txVars, repoVars, cacheVars, graphVars, authVars, svcVars, mgrVars>>

RedisClientSet ==
  /\ rc.built /\ MayContact
  /\ \E key \in ClientKeys : rc' = Set(rc, key)
  /\ UNCHANGED <<txVars, repoVars, cacheVars, graphVars, authVars, svcVars, mgrVars>>

RedisClientSetWithTTL ==
  /\ rc.built /\ MayContact
  /\ \E key \in ClientKeys : rc' = SetWithTTL(rc, "SetWithTTL", key)
  /\ UNCHANGED <<txVars, repoVars, cacheVars, graphVars, authVars, svcVars, mgrVars>>

RedisClientDelete ==
  /\ rc.built /\ MayContact
  /\ \E key \in ClientKeys : rc' = Delete(rc, key)
  /\ UNCHANGED <<txVars, repoVars, cacheVars, graphVars, authVars, svcVars, mgrVars>>

RedisClientDeleteByPattern ==
  /\ rc.built /\ MayContact
  /\ \E pattern \in ClientPatterns : rc' = ClientDeleteByPattern(rc, pattern)
  /\ UNCHANGED <<txVars, repoVars, cacheVars, graphVars, authVars, svcVars, mgrVars>>

\* what a repository operation returned, and what its backend calls returned
Reply(op, found, err, backendErr) ==
  [op |-> op, found |-> found, err |-> err, backend |-> backendErr]

\* UserRepository.GetByID that returns the error of a failed cache Get
GetByIDFailingOnCacheError(c, key, backendErr, upThen) ==
  LET g == Get(c, key)
  IN  IF g.res.err # NilErr
      THEN [g EXCEPT !.rep = Reply("GetByID", FALSE, g.res.err, NilErr), !.up = upThen]
      ELSE [g EXCEPT !.rep = Reply("GetByID", g.res.found, backendErr, backendErr),
                     !.up = upThen]

\* UserRepository.GetByID (every cache-aside read has this shape): cache.Get,
\* whose error is logged; on a hit GetUserRoles, on a miss the query,
\* GetUserRoles and cache.Set, whose error is logged.  backendErr is what the
\* backend calls return, upThen whether the server answers the Set.
CacheAsideGetByID(c, key, backendErr, upThen) ==
  LET g == Get(c, key)
      s == IF g.res.found \/ backendErr # NilErr THEN g
           ELSE Set([g EXCEPT !.up = upThen], key)
  IN  [s EXCEPT !.rep = Reply("GetByID", g.res.found, backendErr, backendErr),
                !.up = upThen]

\* UserRepository.Update (every direct write has this shape): the statement,
\* then invalidateUserCache, whose DeleteByPattern errors are logged
InvalidatingUpdate(c, backendErr, upThen) ==
  LET d == IF backendErr # NilErr THEN c
           ELSE ClientDeleteByPattern(
                  [ClientDeleteByPattern(c, <<"user">>) EXCEPT !.up = upThen],
                  <<"users">>)
  IN  [d EXCEPT !.rep = Reply("Update", FALSE, backendErr, backendErr),
                !.up = upThen]

UserRepositoryGetByID ==
  /\ rc.built /\ MayContact
  /\ \E key \in ClientKeys, backendErr \in {NilErr, DriverErr, ErrUserNotFound},
        upThen \in BOOLEAN :
       rc' = CacheAsideGetByID(rc, key, backendErr, upThen)
  /\ UNCHANGED <<txVars, repoVars, cacheVars, graphVars, authVars, svcVars, mgrVars>>

UserRepositoryUpdate ==
  /\ rc.built /\ MayContact
  /\ \E backendErr \in {NilErr, DriverErr}, upThen \in BOOLEAN :
       rc' = InvalidatingUpdate(rc, backendErr, upThen)
  /\ UNCHANGED <<txVars, repoVars, cacheVars, graphVars, authVars, svcVars, mgrVars>>

\* the cache server stops answering, or answers again
ServerDown ==
  /\ rc.up
  /\ rc' = [rc EXCEPT !.up = FALSE]
  /\ UNCHANGED <<txVars, repoVars, cacheVars, graphVars, authVars, svcVars, mgrVars>>

ServerUp ==
  /\ ~rc.up
  /\ rc' = [rc EXCEPT !.up = TRUE]
  /\ UNCHANGED <<txVars, repoVars, cacheVars, graphVars, authVars, svcVars, mgrVars>>

\* another instance of the service caches an entry on the same server
OtherClientSet ==
  /\ rc.up
  /\ \E key \in ClientKeys \ rc.keys : rc' = [rc EXCEPT !.keys = @ \cup {key}]
  /\ UNCHANGED <<txVars, repoVars, cacheVars, graphVars, authVars, svcVars, mgrVars>>

ClientNext ==
  \/ NewRedisClient
  \/ RedisClientGet
  \/ RedisClientSet
  \/ RedisClientSetWithTTL
  \/ RedisClientDelete
  \/ RedisClientDeleteByPattern
  \/ UserRepositoryGetByID
  \/ UserRepositoryUpdate
  \/ ServerDown
  \/ ServerUp
  \/ OtherClientSet

ClientSpec == Init /\ [][ClientNext]_vars

\* --------------------------------------------- login over the cached user
ErrInvalidLogin == <<"invalid username or password">>
ErrInactive == <<"user account is inactive">>

Usernames == {"alice", "bob"}
RoleNameLists == {<<>>, <<"admin">>}

\* encoding/json writes a bool as the text true or false
BoolText(b) == IF b THEN <<"true">> ELSE <<"false">>

ParseBool(t) == t = <<"true">>

\* json.Marshal of a models.User: one <<name, text>> pair per encoded field;
\* Password has the tag json:"-" and Roles has omitempty
MarshalUser(u) ==
  {<<"id", <<u.ID>>>>, <<"username", <<u.Username>>>>,
   <<"is_active", BoolText(u.IsActive)>>}
    \cup (IF u.Roles # <<>> THEN {<<"roles", u.Roles>>} ELSE {})

HasField(doc, name) == \E p \in doc : p[1] = name

FieldText(doc, name) == (CHOOSE p \in doc : p[1] = name)[2]

\* json.Unmarshal into dest: a field the text does not name keeps dest's value
UnmarshalUser(doc, dest) ==
  [ID       |-> IF HasField(doc, "id") THEN FieldText(doc, "id")[1] ELSE dest.ID,
   Username |-> IF HasField(doc, "username") THEN FieldText(doc, "username")[1]
                ELSE dest.Username,
   Password |-> dest.Password,
   IsActive |-> IF HasField(doc, "is_active")
                THEN ParseBool(FieldText(doc, "is_active")) ELSE dest.IsActive,
   Roles    |-> IF HasField(doc, "roles") THEN FieldText(doc, "roles")
                ELSE dest.Roles]

\* bcrypt.CompareHashAndPassword(u.Password, plain) == nil
CheckPassword(u, plain) == u.Password = HashPassword(plain)

\* UserRepository.GetByUsername on the state a: the user and error returned,
\* the cache entry afterwards, and the value handed to cache.Set
GetByUsername(a, username) ==
  IF username # a.row.Username
  THEN [user |-> ZeroUser, err |-> ErrUserNotFound, entry |-> a.entry,
        stored |-> a.stored, src |-> "backend"]
  ELSE IF a.entry # NoEntry
  THEN [user |-> [UnmarshalUser(a.entry, ZeroUser) EXCEPT !.Roles = a.row.Roles],
        err |-> NilErr, entry |-> a.entry, stored |-> a.stored, src |-> "cache"]
  ELSE [user |-> a.row, err |-> NilErr, entry |-> MarshalUser(a.row),
        stored |-> a.row, src |-> "backend"]

\* AuthService.Login
Login(a, username, password) ==
  LET g   == GetByUsername(a, username)
      err == IF g.err # NilErr THEN ErrInvalidLogin
             ELSE IF ~g.user.IsActive THEN ErrInactive
             ELSE IF ~CheckPassword(g.user, password) THEN ErrInvalidLogin
             ELSE NilErr
  IN  [a EXCEPT !.entry = g.entry, !.stored = g.stored,
                !.last = [op |-> "Login", found |-> g.src = "cache", user |-> g.user,
                          err |-> err,
                          active |-> username = a.row.Username /\ a.row.IsActive,
                          correct |-> username = a.row.Username
                                        /\ CheckPassword(a.row, password),
                          src |-> g.src]]

AuthServiceLogin ==
  /\ \E username \in Usernames, password \in Passwords :
       auth' = Login(auth, username, password)
  /\ UNCHANGED <<txVars, repoVars, cacheVars, graphVars, clientVars, svcVars, mgrVars>>

\* RedisClient.Get(cacheKey, &user) into a zero-valued user
RedisClientGetUser ==
  /\ auth' = [auth EXCEPT !.last =
                [NoLogin EXCEPT !.op = "Get", !.found = auth.entry # NoEntry,
                                !.user = IF auth.entry # NoEntry
                                         THEN UnmarshalUser(auth.entry, ZeroUser)
                                         ELSE ZeroUser]]
  /\ UNCHANGED <<txVars, repoVars, cacheVars, graphVars, clientVars, svcVars, mgrVars>>

\* a write through the user repository: the row changes and invalidateUserCache
\* removes the cached payload
WrittenRow(a, op, row) ==
  [a EXCEPT !.row = row, !.entry = NoEntry, !.stored = ZeroUser,
            !.last = [NoLogin EXCEPT !.op = op]]

UserRepositoryUpdatePassword ==
  /\ \E password \in Passwords :
       auth' = WrittenRow(auth, "UpdatePassword",
                          [auth.row EXCEPT !.Password = HashPassword(password)])
  /\ UNCHANGED <<txVars, repoVars, cacheVars, graphVars, clientVars, svcVars, mgrVars>>

UserRepositorySetActive ==
  /\ \E isActive \in BOOLEAN :
       auth' = WrittenRow(auth, "Update", [auth.row EXCEPT !.IsActive = isActive])
  /\ UNCHANGED <<txVars, repoVars, cacheVars, graphVars, clientVars, svcVars, mgrVars>>

UserRepositoryAssignRoles ==
  /\ \E roles \in RoleNameLists :
       auth' = WrittenRow(auth, "AssignRolesToUser", [auth.row EXCEPT !.Roles = roles])
  /\ UNCHANGED <<txVars, repoVars, cacheVars, graphVars, clientVars, svcVars, mgrVars>>

\* the entry's TTL runs out
EntryExpires ==
  /\ auth.entry # NoEntry
  /\ auth' = [auth EXCEPT !.entry = NoEntry, !.stored = ZeroUser]
  /\ UNCHANGED <<txVars, repoVars, cacheVars, graphVars, clientVars, svcVars, mgrVars>>

AuthNext ==
  \/ AuthServiceLogin
  \/ RedisClientGetUser
  \/ UserRepositoryUpdatePassword
  \/ UserRepositorySetActive
  \/ UserRepositoryAssignRoles
  \/ EntryExpires

AuthSpec == Init /\ [][AuthNext]_vars

\* ------------------------------------- concurrent ExecuteTx on one manager
\* a manager that keeps the handle of the latest beginTx in a field of its own
LatestHandle(m, i) == Len(m.handles)

\* tx in ExecuteTx: a local variable of the invocation
LocalHandle(m, i) == m.inv[i].tx

\* the invocations that are inside ExecuteTx
Running(m) == DOMAIN m.inv

\* the function f with x mapped to v
With(f, x, v) == [y \in DOMAIN f \cup {x} |-> IF y = x THEN v ELSE f[y]]

\* the function f without x
Without(f, x) == [y \in DOMAIN f \ {x} |-> f[y]]

\* invocation i writes through, commits or rolls back handle h
UseHandle(m, h, i) ==
  [m EXCEPT !.handles[h].users = @ \cup {i},
            !.handles[h].late = @ \/ m.handles[h].returned]

\* ExecuteTx of invocation i returns; the call that created its handle is over
ReturnFrom(m, i) ==
  [m EXCEPT !.handles[m.inv[i].tx].returned = TRUE,
            !.inv = Without(m.inv, i)]

\* tx, err := m.beginTx(ctx): a new handle, or the early return
MgrExecuteTxBegin(i) ==
  /\ i \notin Running(mgr) /\ mgr.calls < MaxMgrCalls
  /\ \E ok \in BOOLEAN :
       mgr' = IF ok
              THEN [mgr EXCEPT
                      !.calls = @ + 1,
                      !.handles = Append(@, [owner |-> i, returned |-> FALSE,
                                             users |-> {}, late |-> FALSE]),
                      !.inv = With(@, i, [pc |-> "fn", tx |-> Len(mgr.handles) + 1])]
              ELSE [mgr EXCEPT !.calls = @ + 1]
  /\ UNCHANGED <<txVars, repoVars, cacheVars, graphVars, clientVars, authVars, svcVars>>

\* fn(m.createRepo(tx)): the callback writes through the repository of tx
MgrCallback(i) ==
  /\ i \in Running(mgr) /\ mgr.inv[i].pc = "fn"
  /\ \E ok \in BOOLEAN :
       mgr' = [UseHandle(mgr, LocalHandle(mgr, i), i)
                 EXCEPT !.inv[i].pc = IF ok THEN "commit" ELSE "rollback"]
  /\ UNCHANGED <<txVars, repoVars, cacheVars, graphVars, clientVars, authVars, svcVars>>

\* tx.Rollback() and the return that follows it
MgrRollback(i) ==
  /\ i \in Running(mgr) /\ mgr.inv[i].pc = "rollback"
  /\ mgr' = ReturnFrom(UseHandle(mgr, LocalHandle(mgr, i), i), i)
  /\ UNCHANGED <<txVars, repoVars, cacheVars, graphVars, clientVars, authVars, svcVars>>

\* tx.Commit() and the return that follows it
MgrCommit(i) ==
  /\ i \in Running(mgr) /\ mgr.inv[i].pc = "commit"
  /\ mgr' = ReturnFrom(UseHandle(mgr, LocalHandle(mgr, i), i), i)
  /\ UNCHANGED <<txVars, repoVars, cacheVars, graphVars, clientVars, authVars, svcVars>>

MgrNext ==
  \/ \E i \in Invocations : MgrExecuteTxBegin(i)
  \/ \E i \in Invocations : MgrCallback(i)
  \/ \E i \in Invocations : MgrRollback(i)
  \/ \E i \in Invocations : MgrCommit(i)

MgrSpec == Init /\ [][MgrNext]_vars

\* ------------------------------------------------ service create requests
ErrUsernameExists == <<"username already exists">>
ErrPermissionExists == <<"permission already exists for this resource and action">>

CreateOps == {"CreateUser", "CreatePermission"}
FirstKeys == {"k1", "k2"}      \* username, or resource
SecondKeys == {"m1", "m2"}     \* email, or action

Kind(op) == IF op = "CreateUser" THEN "user" ELSE "permission"

\* a table without the unique constraints
NoUniqueIndex(rows, r) == FALSE

\* users: UNIQUE username, UNIQUE email; permissions: UNIQUE(resource, action).
\* does row r collide with a row of rows
UniqueConflict(rows, r) ==
  \E x \in rows :
    /\ x.id # r.id /\ x.kind = r.kind
    /\ IF r.kind = "user" THEN x.a = r.a \/ x.b = r.b ELSE x.a = r.a /\ x.b = r.b

\* userRepo.GetByUsername / permissionRepo.GetByResourceAction returned an entity
PreCheckFound(rows, op, a, b) ==
  \E x \in rows : x.kind = Kind(op) /\ x.a = a /\ (op = "CreateUser" \/ x.b = b)

PreCheckErr(op) == IF op = "CreateUser" THEN ErrUsernameExists ELSE ErrPermissionExists

\* a create that enters the transaction whatever the pre-check found
EnterTxRegardless(found) == "begin"

\* if err == nil && existing != nil { return nil, fmt.Errorf(...) }
AfterPreCheck(found) == IF found THEN "returned" ELSE "begin"

\* the error the callback returns for a failed insert
CreateFnErr(op, e) ==
  IF op = "CreateUser"
  THEN Wrap("failed to create user: ",
            Wrap(IF dbType = "postgres" THEN "failed to create user in transaction: "
                 ELSE "failed to create user in MongoDB transaction: ", e))
  ELSE Wrap("failed to create permission: ",
            Wrap(IF dbType = "postgres" THEN "failed to create permission in transaction: "
                 ELSE "failed to create permission in MongoDB transaction: ", e))

RowOf(k) == [kind |-> Kind(k.op), id |-> k.id, a |-> k.a, b |-> k.b]

OwnRows(rows, k) == {x \in rows : x.id = k.id}

\* the request enters the service and runs its uniqueness pre-check
ServicePreCheck(c) ==
  /\ IF c \in DOMAIN svc.call THEN svc.call[c].pc = "returned" ELSE TRUE
  /\ svc.requests < MaxRequests
  /\ \E op \in CreateOps, a \in FirstKeys, b \in SecondKeys :
       LET found == PreCheckFound(svc.rows, op, a, b)
           pc2   == AfterPreCheck(found)
       IN  svc' = [svc EXCEPT
                     !.requests = @ + 1,
                     !.call = With(@, c, [NoCall EXCEPT
                        !.pc = pc2, !.op = op, !.id = svc.requests + 1,
                        !.a = a, !.b = b, !.found = found,
                        !.err = IF pc2 = "returned" THEN PreCheckErr(op) ELSE NilErr])]
  /\ UNCHANGED <<txVars, repoVars, cacheVars, graphVars, clientVars, authVars, mgrVars>>

\* s.txManager.ExecuteTx: beginTx
ServiceBeginTx(c) ==
  /\ c \in DOMAIN svc.call /\ svc.call[c].pc = "begin"
  /\ \E how \in {"ok", "noTx"} :
       LET bg == BeginTx(EmptyStore, how).h
       IN  svc' = [svc EXCEPT
                     !.call[c].txs = @ + 1,
                     !.call[c].h = bg.tx,
                     !.call[c].pc = IF bg.err = NilErr THEN "insert" ELSE "returned",
                     !.call[c].err = IF bg.err = NilErr THEN NilErr
                                     ELSE Wrap("failed to begin transaction: ", bg.err)]
  /\ UNCHANGED <<txVars, repoVars, cacheVars, graphVars, clientVars, authVars, mgrVars>>

\* tx.CreateUser / tx.CreatePermission.  A relational INSERT whose key is held
\* by another transaction's uncommitted row waits for that transaction to end;
\* a document-store InsertOne on the finished session is applied at once.
ServiceInsert(c) ==
  LET k   == svc.call[c]
      row == RowOf(k)
  IN  /\ c \in DOMAIN svc.call /\ k.pc = "insert"
      /\ dbType = "postgres" => ~UniqueConflict(svc.pending, row)
      /\ svc' =
           IF UniqueConflict(svc.rows, row)
           THEN [svc EXCEPT
                   !.call[c].conflict = TRUE,
                   !.call[c].fnErr = CreateFnErr(k.op, ErrDuplicateKey),
                   !.call[c].h = IF dbType = "postgres" THEN @
                                 ELSE [@ EXCEPT !.state = "None"],
                   !.call[c].pc = "rollback"]
           ELSE IF dbType = "postgres"
           THEN [svc EXCEPT !.pending = @ \cup {row}, !.call[c].wrote = TRUE,
                            !.call[c].pc = "commit"]
           ELSE [svc EXCEPT !.rows = @ \cup {row}, !.call[c].wrote = TRUE,
                            !.call[c].h = [@ EXCEPT !.state = "None"],
                            !.call[c].pc = "commit"]
      /\ UNCHANGED <<txVars, repoVars, cacheVars, graphVars, clientVars, authVars, mgrVars>>

\* tx.Commit() and the service's return
ServiceCommit(c) ==
  LET k == svc.call[c] IN
  /\ c \in DOMAIN svc.call /\ k.pc = "commit"
  /\ \E ok \in BOOLEAN :
       LET cm == HandleCommit(k.h, ok)
       IN  svc' = [svc EXCEPT
                     !.rows = IF Durable(k.h, cm.tx) THEN @ \cup OwnRows(svc.pending, k)
                              ELSE @,
                     !.pending = @ \ OwnRows(svc.pending, k),
                     !.call[c].h = cm.tx,
                     !.call[c].err = ExecuteTxOnSuccess(cm.err),
                     !.call[c].resp = cm.err = NilErr,
                     !.call[c].pc = "returned"]
  /\ UNCHANGED <<txVars, repoVars, cacheVars, graphVars, clientVars, authVars, mgrVars>>

\* tx.Rollback() and the service's return
ServiceRollback(c) ==
  LET k == svc.call[c] IN
  /\ c \in DOMAIN svc.call /\ k.pc = "rollback"
  /\ \E ok \in BOOLEAN :
       LET rb == HandleRollback(k.h, ok)
       IN  svc' = [svc EXCEPT
                     !.pending = @ \ OwnRows(svc.pending, k),
                     !.call[c].h = rb.tx,
                     !.call[c].err = ExecuteTxOnError(k.fnErr, rb.err),
                     !.call[c].pc = "returned"]
  /\ UNCHANGED <<txVars, repoVars, cacheVars, graphVars, clientVars, authVars, mgrVars>>

ServiceNext ==
  \/ \E c \in Callers : ServicePreCheck(c)
  \/ \E c \in Callers : ServiceBeginTx(c)
  \/ \E c \in Callers : ServiceInsert(c)
  \/ \E c \in Callers : ServiceCommit(c)
  \/ \E c \in Callers : ServiceRollback(c)

ServiceSpec == Init /\ [][ServiceNext]_vars

\* ------------------------------------------------ service update requests
IdLists == {<<>>, <<1>>, <<2>>, <<1, 2>>}

\* an update that replaces the associations whatever the list holds
ReplacesAlways(list) == TRUE

\* if len(request.RoleIDs) > 0 / if len(request.PermissionIDs) > 0
ReplacesAssociations(list) == Len(list) > 0

\* ExecuteTx around the update callback: the entity's row is written, then the
\* associations are replaced when the guard says so.  The relational commit
\* applies both or, failing, neither; the document store has applied each write
\* when it was issued and its Commit finds no transaction.
UpdateTx(before, list, ok) ==
  LET replaced == ReplacesAssociations(list)
      written  == IF replaced THEN Range(list) ELSE before
  IN  IF dbType = "postgres"
      THEN [assoc |-> IF ok THEN written ELSE before, replaced |-> replaced,
            err |-> ExecuteTxOnSuccess(IF ok THEN NilErr ELSE DriverErr)]
      ELSE [assoc |-> written, replaced |-> replaced,
            err |-> ExecuteTxOnSuccess(ErrNoTransactStarted)]

UserServiceUpdateUser ==
  /\ \E list \in IdLists, ok \in BOOLEAN :
       LET u == UpdateTx(svc.userRoles, list, ok)
       IN  svc' = [svc EXCEPT
                     !.userRoles = u.assoc,
                     !.last = [op |-> "UpdateUser", list |-> list,
                               before |-> svc.userRoles, replaced |-> u.replaced,
                               err |-> u.err]]
  /\ UNCHANGED <<txVars, repoVars, cacheVars, graphVars, clientVars, authVars, mgrVars>>

RoleServiceUpdateRole ==
  /\ \E list \in IdLists, ok \in BOOLEAN :
       LET u == UpdateTx(svc.rolePerms, list, ok)
       IN  svc' = [svc EXCEPT
                     !.rolePerms = u.assoc,
                     !.last = [op |-> "UpdateRole", list |-> list,
                               before |-> svc.rolePerms, replaced |-> u.replaced,
                               err |-> u.err]]
  /\ UNCHANGED <<txVars, repoVars, cacheVars, graphVars, clientVars, authVars, mgrVars>>

UpdateNext ==
  \/ UserServiceUpdateUser
  \/ RoleServiceUpdateRole

UpdateSpec == Init /\ [][UpdateNext]_vars

\* ------------------------------------------------------------- C20
\* C20: a client constructed while the cache server did not answer is returned
\* with no error, and from then on its Get reports not-found with no error and
\* its Set, SetWithTTL, Delete and DeleteByPattern return nil, none of them
\* sending a command to the server, also once the server answers again.
C20_DisabledClientIsNoOp ==
  /\ rc.res.op = "NewRedisClient" => (rc.built /\ rc.res.err = NilErr)
  /\ (rc.built /\ ~rc.enabled)
       => (rc.contacts = 0 /\ ~rc.res.found /\ rc.res.err = NilErr)

\* the server answers again and holds every key, and the client built while it
\* was down has just reported a key as not found
C20_Witness ==
  /\ rc.built /\ ~rc.enabled /\ rc.up
  /\ rc.keys = ClientKeys
  /\ rc.res = Result("Get", FALSE, NilErr)

\* ------------------------------------------------------------- C24
\* C24: once ExecuteTx has returned - committed, rolled back or failed to
\* begin - no document-store session started for the call is still open.
C24_SessionReleasedOnReturn ==
  pc = "returned" => sessions = 0

\* ------------------------------------------------------------- C25
\* C25: when the callback of a role or permission repository's ExecuteTx fails
\* and the rollback or abort then fails too, the error returned carries both
\* the callback's error and the rollback's.
C25_RepoExecuteTxKeepsRollbackError ==
  (write.path.op = "ExecuteTx" /\ write.rbErr # NilErr)
    => (Contains(write.err, ErrInvalidRoleID) /\ Contains(write.err, write.rbErr))

\* ------------------------------------------------------------- C30
\* UserRepository.GetUserPermissions: SELECT DISTINCT p.* FROM permissions p
\* JOIN role_permissions rp JOIN user_roles ur WHERE ur.user_id = $1
PgGetUserPermissions(g, userID) ==
  {p \in g.permissions :
     \E r \in RoleIds : <<r, p>> \in g.role_permissions /\ <<userID, r>> \in g.user_roles}

\* the permission ids of the user's roles, whether or not a document has them
MongoGetUserPermissionIDs(g, userID) ==
  LET roleIDs == {r \in RoleIds : <<userID, r>> \in g.user_roles}
  IN  {p \in PermIds : \E r \in roleIDs : <<r, p>> \in g.role_permissions}

\* MongoUserRepository.GetUserPermissions: the role ids of the user, the
\* permission ids of those roles, then FindOne per permission id, skipping the
\* ids that have no document
MongoGetUserPermissions(g, userID) ==
  LET roleIDs == {r \in RoleIds : <<userID, r>> \in g.user_roles}
      permissionIDs == {p \in PermIds : \E r \in roleIDs : <<r, p>> \in g.role_permissions}
  IN  {p \in permissionIDs : p \in g.permissions}

\* C30: on every store state the relational and the document-store
\* HasPermission give the same answer: true exactly when a role assigned to
\* the user is assigned an existing permission of that resource and action,
\* which is exactly when GetUserPermissions of either backend contains it.
C30_HasPermissionAgrees ==
  \A u \in UserIds, p \in PermIds :
    LET granted == /\ p \in gstore.permissions
                   /\ \E r \in RoleIds : /\ <<u, r>> \in gstore.user_roles
                                         /\ <<r, p>> \in gstore.role_permissions
    IN  /\ PgHasPermission(gstore, u, p) = granted
        /\ MongoHasPermission(gstore, u, p) = granted
        /\ (p \in PgGetUserPermissions(gstore, u)) = granted
        /\ (p \in MongoGetUserPermissions(gstore, u)) = granted

\* a role of the user is still assigned a permission that has been deleted,
\* and neither backend grants or lists it
C30_Witness ==
  \E u \in UserIds, r \in RoleIds, p \in PermIds :
    /\ <<u, r>> \in gstore.user_roles /\ <<r, p>> \in gstore.role_permissions
    /\ p \notin gstore.permissions
    /\ ~PgHasPermission(gstore, u, p) /\ ~MongoHasPermission(gstore, u, p)
    /\ p \notin MongoGetUserPermissions(gstore, u)

\* ------------------------------------------------------------- C21
\* C21: a repository read or write returns exactly the error of its backend
\* calls: a failed cache Get is a miss, a failed cache Set or DeleteByPattern
\* leaves no trace in what the operation returns.
C21_CacheFailureNeverReturned ==
  rc.rep.op \in {"GetByID", "Update"} => rc.rep.err = rc.rep.backend

\* a read on an enabled client whose server does not answer has returned the
\* backend's user without an error
C21_Witness ==
  /\ rc.rep = Reply("GetByID", FALSE, NilErr, NilErr)
  /\ rc.res.op = "Set" /\ rc.res.err # NilErr
  /\ rc.enabled /\ ~rc.up /\ rc.contacts = 2

\* ------------------------------------------------------------- C22
\* C22: a user value stored in the cache and read back before the entry is
\* deleted or expires is equal to the stored value in every field
C22_CacheRoundTripPreservesUser ==
  (auth.last.op = "Get" /\ auth.last.found) => auth.last.user = auth.stored

\* ------------------------------------------------------------- C28
\* C28: a login of an active user with the correct password succeeds, whether
\* GetByUsername answered from the backend or from the cache
C28_ValidLoginSucceeds ==
  (auth.last.op = "Login" /\ auth.last.active /\ auth.last.correct)
    => auth.last.err = NilErr

\* ------------------------------------------------------------- C23
\* C23: under concurrent ExecuteTx calls on one manager every executor handle
\* is used only by the invocation whose beginTx created it, and never after
\* that invocation's ExecuteTx has returned
C23_HandleConfinedToItsCall ==
  \A h \in DOMAIN mgr.handles :
    /\ mgr.handles[h].users \subseteq {mgr.handles[h].owner}
    /\ ~mgr.handles[h].late

\* one call has returned while two others, of different callers, are both
\* past their callback
C23_Witness ==
  /\ Len(mgr.handles) = 3
  /\ mgr.handles[1].returned /\ mgr.handles[1].users # {}
  /\ ~mgr.handles[2].returned /\ ~mgr.handles[3].returned
  /\ mgr.handles[2].users # {} /\ mgr.handles[3].users # {}
  /\ mgr.handles[2].owner # mgr.handles[3].owner

\* ------------------------------------------------------------- C26
Returned(k) == k.pc = "returned"

\* the create lost to another create of the same username or email
Lost(k) == Returned(k) /\ k.op = "CreateUser" /\ (k.found \/ k.conflict)

AtMostOneWinner ==
  \A c1, c2 \in DOMAIN svc.call :
    (/\ c1 # c2
     /\ Returned(svc.call[c1]) /\ Returned(svc.call[c2])
     /\ svc.call[c1].op = "CreateUser" /\ svc.call[c2].op = "CreateUser"
     /\ svc.call[c1].err = NilErr /\ svc.call[c2].err = NilErr)
      => (svc.call[c1].a # svc.call[c2].a /\ svc.call[c1].b # svc.call[c2].b)

AtMostOneUser ==
  \A x, y \in svc.rows :
    (x.kind = "user" /\ y.kind = "user" /\ (x.a = y.a \/ x.b = y.b)) => x = y

C27_ConflictBeforeTransaction ==
  \A c \in DOMAIN svc.call :
    svc.call[c].found
      => /\ svc.call[c].txs = 0 /\ ~svc.call[c].wrote
         /\ Returned(svc.call[c])
         /\ svc.call[c].err = PreCheckErr(svc.call[c].op)
         /\ ~svc.call[c].resp
         /\ OwnRows(svc.rows \cup svc.pending, svc.call[c]) = {}

\* a CreateUser whose pre-check found the username has returned, while another
\* caller's CreatePermission is inside its transaction
C27_Witness ==
  \E c1, c2 \in DOMAIN svc.call :
    /\ svc.call[c1].op = "CreateUser" /\ svc.call[c1].found
    /\ Returned(svc.call[c1]) /\ svc.call[c1].err = ErrUsernameExists
    /\ svc.call[c1].txs = 0 /\ ~svc.call[c1].resp
    /\ svc.call[c2].op = "CreatePermission" /\ svc.call[c2].pc = "commit"

\* ------------------------------------------------------------- C29
\* C29: an update whose id list is empty does not invoke the association
\* replacement and leaves the entity's association set as it was
C29_EmptyListKeepsAssociations ==
  (svc.last.op \in {"UpdateUser", "UpdateRole"} /\ svc.last.list = <<>>)
    => /\ ~svc.last.replaced
       /\ svc.last.op = "UpdateUser" => svc.userRoles = svc.last.before
       /\ svc.last.op = "UpdateRole" => svc.rolePerms = svc.last.before

C29_Witness ==
  /\ svc.last.op = "UpdateUser" /\ svc.last.list = <<>>
  /\ svc.userRoles = {1, 2} /\ svc.rolePerms # {}

====
